---- MODULE Spec2Model ----
(***************************************************************************)
(* Model of the ingestion core of src/trading_calendar.py: TradeProcessor  *)
(* (process_file, _find_trades_sheet, _analyze_headers, _process_trades,   *)
(* calculate_stats).                                                       *)
(*                                                                         *)
(* Conventions.                                                            *)
(*  - A Python str is a sequence of one-character strings.                 *)
(*  - A cell value is a tagged record: None, Num (a Python int), Text,     *)
(*    DateTime (a native datetime; only its calendar date is kept).        *)
(*  - A Python float holding a profit/loss amount is an integer number of  *)
(*    hundredths, so that amounts with two decimals are exact.             *)
(*  - A quotient computed by float division is the reduced fraction.       *)
(*  - Column indices are 1-based (Python index + 1).                       *)
(*  - datetime.now().date() is CurrentDate for the whole behaviour.        *)
(***************************************************************************)
EXTENDS Integers, Sequences, FiniteSets, TLC

\* ------------------------------------------------------------------ text

Digits == <<"0", "1", "2", "3", "4", "5", "6", "7", "8", "9">>

IsDigit(c) == \E k \in 1..10 : Digits[k] = c

DigitVal(c) == (CHOOSE k \in 1..10 : Digits[k] = c) - 1

AllDigits(s) == \A k \in 1..Len(s) : IsDigit(s[k])

\* value of a non-empty digit string
RECURSIVE DigitsVal(_)
DigitsVal(s) ==
    IF s = <<>> THEN 0
    ELSE 10 * DigitsVal(SubSeq(s, 1, Len(s) - 1)) + DigitVal(s[Len(s)])

\* str(n) for a natural number n
RECURSIVE NatStr(_)
NatStr(n) ==
    IF n < 10 THEN <<Digits[n + 1]>>
    ELSE Append(NatStr(n \div 10), Digits[(n % 10) + 1])

\* str(n) for a Python int
IntStr(n) == IF n < 0 THEN <<"-">> \o NatStr(0 - n) ELSE NatStr(n)

\* n formatted with at least w digits, zero padded (%02d, %Y for years >= 1000)
RECURSIVE Pad(_, _)
Pad(s, w) == IF Len(s) >= w THEN s ELSE Pad(<<"0">> \o s, w)

IsSpace(c) == c \in {" ", "\t", "\n", "\r"}

\* str.strip()
RECURSIVE LStrip(_)
LStrip(s) == IF s # <<>> /\ IsSpace(s[1]) THEN LStrip(Tail(s)) ELSE s

RECURSIVE RStrip(_)
RStrip(s) ==
    IF s # <<>> /\ IsSpace(s[Len(s)]) THEN RStrip(SubSeq(s, 1, Len(s) - 1)) ELSE s

Strip(s) == RStrip(LStrip(s))

\* str.replace(c, ''): every occurrence of the character c removed
RemoveChar(s, c) == SelectSeq(s, LAMBDA x : x # c)

\* the leading run of non-whitespace characters of s
RECURSIVE TakeWord(_)
TakeWord(s) ==
    IF s = <<>> \/ IsSpace(s[1]) THEN <<>> ELSE <<s[1]>> \o TakeWord(Tail(s))

\* str.split(): the maximal runs of non-whitespace characters, in order
RECURSIVE Split(_)
Split(s) ==
    LET t == LStrip(s)
        w == TakeWord(t)
    IN  IF t = <<>> THEN <<>>
        ELSE <<w>> \o Split(SubSeq(t, Len(w) + 1, Len(t)))

UpperCase ==
    <<"A", "B", "C", "D", "E", "F", "G", "H", "I", "J", "K", "L", "M",
      "N", "O", "P", "Q", "R", "S", "T", "U", "V", "W", "X", "Y", "Z">>

LowerCase ==
    <<"a", "b", "c", "d", "e", "f", "g", "h", "i", "j", "k", "l", "m",
      "n", "o", "p", "q", "r", "s", "t", "u", "v", "w", "x", "y", "z">>

LowerTable == [c \in {UpperCase[k] : k \in 1..26} |->
                  LowerCase[CHOOSE k \in 1..26 : UpperCase[k] = c]]

LowerOf(c) == IF c \in DOMAIN LowerTable THEN LowerTable[c] ELSE c

\* str.lower()
Lower(s) == [k \in 1..Len(s) |-> LowerOf(s[k])]

\* the `in` operator on two str: sub occurs in s as a contiguous substring
Contains(s, sub) ==
    \E k \in 0..(Len(s) - Len(sub)) : SubSeq(s, k + 1, k + Len(sub)) = sub

\* ------------------------------------------------------------------ dates

Date(y, m, d) == [year |-> y, month |-> m, day |-> d]

IsLeap(y) == (y % 4 = 0 /\ y % 100 # 0) \/ y % 400 = 0

DaysInMonth(y, m) ==
    IF m = 2 THEN (IF IsLeap(y) THEN 29 ELSE 28)
    ELSE IF m \in {4, 6, 9, 11} THEN 30 ELSE 31

\* line 308, mutated: >= in place of >
DateAfter_OrSame(a, b) ==
    \/ a.year > b.year
    \/ a.year = b.year /\ a.month > b.month
    \/ a.year = b.year /\ a.month = b.month /\ a.day >= b.day

\* date.__gt__
DateAfter(a, b) ==
    \/ a.year > b.year
    \/ a.year = b.year /\ a.month > b.month
    \/ a.year = b.year /\ a.month = b.month /\ a.day > b.day

\* datetime.strptime(tok, '%Y-%m-%d').date(): ok = FALSE stands for ValueError.
\* %Y takes exactly four digits, %m and %d one or two, and the whole token
\* must be consumed; the date must exist.
Strptime(tok) ==
    LET dashes == {k \in 1..Len(tok) : tok[k] = "-"}
        p2 == CHOOSE k \in dashes : k # 5
        ys == SubSeq(tok, 1, 4)
        ms == SubSeq(tok, 6, p2 - 1)
        ds == SubSeq(tok, p2 + 1, Len(tok))
        shape == /\ Cardinality(dashes) = 2
                 /\ 5 \in dashes
                 /\ p2 > 5
                 /\ Len(ms) \in {1, 2} /\ Len(ds) \in {1, 2}
                 /\ AllDigits(ys) /\ AllDigits(ms) /\ AllDigits(ds)
    IN  IF ~shape THEN [ok |-> FALSE]
        ELSE LET y == DigitsVal(ys)
                 m == DigitsVal(ms)
                 d == DigitsVal(ds)
             IN  IF y >= 1 /\ m \in 1..12 /\ d >= 1 /\ d <= DaysInMonth(y, m)
                 THEN [ok |-> TRUE, date |-> Date(y, m, d)]
                 ELSE [ok |-> FALSE]

\* date.strftime('%Y-%m-%d')
Strftime(d) ==
    Pad(NatStr(d.year), 4) \o <<"-">> \o Pad(NatStr(d.month), 2)
        \o <<"-">> \o Pad(NatStr(d.day), 2)

\* ------------------------------------------------------------------ cells

None == [t |-> "None"]

Num(n) == [t |-> "Num", v |-> n]

Text(s) == [t |-> "Text", s |-> s]

DateTime(d) == [t |-> "DateTime", d |-> d]

\* truth value, mutated: `x is not None`
Truthy_NotNone(c) == c.t # "None"

\* Python truth value of a cell (`if x`, `not x`)
Truthy(c) ==
    CASE c.t = "None" -> FALSE
      [] c.t = "Num" -> c.v # 0
      [] c.t = "Text" -> c.s # <<>>
      [] c.t = "DateTime" -> TRUE

\* str(x) of a cell; a native datetime prints its date and its time of day
Str(c) ==
    CASE c.t = "None" -> <<"N", "o", "n", "e">>
      [] c.t = "Num" -> IntStr(c.v)
      [] c.t = "Text" -> c.s
      [] c.t = "DateTime" ->
            Strftime(c.d) \o <<" ", "0", "0", ":", "0", "0", ":", "0", "0">>

\* ------------------------------------------------------------------ numbers

\* float(n) of a Python int, in hundredths
FloatOfInt(n) == n * 100

\* float(s) of a str without surrounding whitespace: an optional sign, digits
\* and an optional fraction; ok = FALSE stands for ValueError.  Fraction
\* digits after the second are dropped (the resolution of the model).  Text
\* with an exponent, with underscores between digits, or spelling inf or nan,
\* which float() accepts as well, is outside the texts of the model.
FloatOfStr(s) ==
    LET signed == s # <<>> /\ s[1] \in {"+", "-"}
        body == IF signed THEN Tail(s) ELSE s
        dots == {k \in 1..Len(body) : body[k] = "."}
        p == IF dots = {} THEN Len(body) + 1 ELSE CHOOSE k \in dots : TRUE
        ip == SubSeq(body, 1, p - 1)
        fp == SubSeq(body, p + 1, Len(body))
        f2 == SubSeq(fp \o <<"0", "0">>, 1, 2)
        shape == /\ Cardinality(dots) <= 1
                 /\ AllDigits(ip) /\ AllDigits(fp)
                 /\ Len(ip) + Len(fp) > 0
        mag == DigitsVal(ip) * 100 + DigitsVal(f2)
    IN  IF ~shape THEN [ok |-> FALSE]
        ELSE [ok |-> TRUE,
              val |-> IF signed /\ s[1] = "-" THEN 0 - mag ELSE mag]

RECURSIVE GCD(_, _)
GCD(a, b) == IF b = 0 THEN a ELSE GCD(b, a % b)

Abs(n) == IF n < 0 THEN 0 - n ELSE n

\* the float quotient n / d (d > 0), as the reduced fraction
Ratio(n, d) ==
    LET g == GCD(Abs(n), d)
    IN  [num |-> n \div g, den |-> d \div g]

\* the float 0.0 and the int 0 (equal in Python)
Zero == Ratio(0, 1)

\* what n / 0 gives in place of a quotient: ZeroDivisionError is raised
ZeroDivisionError == [num |-> 0, den |-> 0]

\* n / d for an int d >= 0
Divide(n, d) == IF d = 0 THEN ZeroDivisionError ELSE Ratio(n, d)

\* ------------------------------------------------------------------ row parsing

\* today's date, datetime.now().date()
CurrentDate == Date(2024, 1, 6)

MinYear == 2000

\* lines 297-309: the date of a truthy date cell.  "raise" stands for the
\* IndexError of [0] on an empty split(), which neither except clause names.
ParseDateInline(datetime_val) ==
    IF datetime_val.t = "DateTime"
    THEN IF DateAfter(datetime_val.d, CurrentDate) \/ datetime_val.d.year < MinYear
         THEN [kind |-> "skip"]
         ELSE [kind |-> "ok", date |-> datetime_val.d]
    ELSE LET tokens == Split(Str(datetime_val))
         IN  IF tokens = <<>> THEN [kind |-> "raise"]
             ELSE LET parsed == Strptime(tokens[1])
                  IN  IF ~parsed.ok THEN [kind |-> "skip"]
                      ELSE IF DateAfter(parsed.date, CurrentDate)
                                \/ parsed.date.year < MinYear
                           THEN [kind |-> "skip"]
                           ELSE [kind |-> "ok", date |-> parsed.date]

\* lines 311-323, mutated: the dollar sign is not removed at line 315
ParsePnlInline_KeepDollar(pnl_val) ==
    IF pnl_val.t = "Num" THEN [kind |-> "ok", pnl |-> FloatOfInt(pnl_val.v)]
    ELSE IF pnl_val.t = "Text"
    THEN LET cleaned == Strip(RemoveChar(pnl_val.s, ","))
         IN  IF cleaned = <<>> \/ cleaned = <<"-">> THEN [kind |-> "skip"]
             ELSE LET f == FloatOfStr(cleaned)
                  IN  IF f.ok THEN [kind |-> "ok", pnl |-> f.val]
                      ELSE [kind |-> "skip"]
    ELSE [kind |-> "skip"]

\* lines 311-323: the amount of a pnl cell that is not None
ParsePnlInline(pnl_val) ==
    IF pnl_val.t = "Num" THEN [kind |-> "ok", pnl |-> FloatOfInt(pnl_val.v)]
    ELSE IF pnl_val.t = "Text"
    THEN LET cleaned == Strip(RemoveChar(RemoveChar(pnl_val.s, ","), "$"))
         IN  IF cleaned = <<>> \/ cleaned = <<"-">> THEN [kind |-> "skip"]
             ELSE LET f == FloatOfStr(cleaned)
                  IN  IF f.ok THEN [kind |-> "ok", pnl |-> f.val]
                      ELSE [kind |-> "skip"]
    ELSE [kind |-> "skip"]

\* line 294, mutated: `not trade_num or` in place of `trade_num and`
IsDuplicate_Falsy(trade_num, seen) == ~Truthy(trade_num) \/ trade_num \in seen

\* line 294, mutated: no row is taken for a duplicate
IsDuplicate_Never(trade_num, seen) == FALSE

\* line 294
IsDuplicate(trade_num, seen) == Truthy(trade_num) /\ trade_num \in seen

\* lines 326-327
MarkSeen(seen, trade_num) ==
    IF Truthy(trade_num) THEN seen \cup {trade_num} ELSE seen

\* lines 330-334
MakeTrade(trade_date, pnl, trade_num) ==
    [date |-> trade_date, pnl |-> pnl, trade_num |-> trade_num]

\* headers.get(key): the column of a field, 0 for None
ColumnOf(headers, key) == IF key \in DOMAIN headers THEN headers[key] ELSE 0

\* row[col] raises IndexError when the row has fewer cells
HasCell(row, col) == col <= Len(row)

\* the outcomes of one iteration of the loop body, each with the set of seen
\* identifiers it leaves: `continue`, an exception that passes the except
\* clause of line 340, and the trade built
Skip(seen) == [kind |-> "skip", seen |-> seen]

Escape(seen) == [kind |-> "raise", seen |-> seen]

Accept(trade, seen) == [kind |-> "accept", seen |-> seen, trade |-> trade]

\* lines 283-341, mutated: the identifier is recorded right after the
\* duplicate check, before the date and the amount are parsed
ProcessRow_MarkEarly(row, headers, seen) ==
    LET trade_num_col == ColumnOf(headers, "trade_num")
        datetime_col == headers["datetime"]
        pnl_col == headers["pnl"]
    IN  IF \/ trade_num_col # 0 /\ ~HasCell(row, trade_num_col)
           \/ ~HasCell(row, datetime_col)
           \/ ~HasCell(row, pnl_col)
        THEN Escape(seen)
        ELSE
        LET trade_num == IF trade_num_col # 0 THEN row[trade_num_col] ELSE None
            datetime_val == row[datetime_col]
            pnl_val == row[pnl_col]
            marked == MarkSeen(seen, trade_num)
        IN  IF ~Truthy(datetime_val) \/ pnl_val = None THEN Skip(seen)
            ELSE IF IsDuplicate(trade_num, seen) THEN Skip(seen)
            ELSE LET d == ParseDateInline(datetime_val)
                 IN  IF d.kind = "raise" THEN Escape(marked)
                     ELSE IF d.kind = "skip" THEN Skip(marked)
                     ELSE LET p == ParsePnlInline(pnl_val)
                          IN  IF p.kind # "ok" THEN Skip(marked)
                              ELSE Accept(MakeTrade(d.date, p.pnl, trade_num), marked)

\* lines 283-338, mutated: line 290 tests `not pnl_val`
ProcessRow_FalsyPnl(row, headers, seen) ==
    LET trade_num_col == ColumnOf(headers, "trade_num")
        datetime_col == headers["datetime"]
        pnl_col == headers["pnl"]
    IN  IF \/ trade_num_col # 0 /\ ~HasCell(row, trade_num_col)
           \/ ~HasCell(row, datetime_col)
           \/ ~HasCell(row, pnl_col)
        THEN Escape(seen)
        ELSE
        LET trade_num == IF trade_num_col # 0 THEN row[trade_num_col] ELSE None
            datetime_val == row[datetime_col]
            pnl_val == row[pnl_col]
        IN  IF ~Truthy(datetime_val) \/ ~Truthy(pnl_val) THEN Skip(seen)
            ELSE IF IsDuplicate(trade_num, seen) THEN Skip(seen)
            ELSE LET d == ParseDateInline(datetime_val)
                 IN  IF d.kind = "raise" THEN Escape(seen)
                     ELSE IF d.kind = "skip" THEN Skip(seen)
                     ELSE LET p == ParsePnlInline(pnl_val)
                          IN  IF p.kind # "ok" THEN Skip(seen)
                              ELSE Accept(MakeTrade(d.date, p.pnl, trade_num),
                                          MarkSeen(seen, trade_num))

\* lines 283-341, one iteration of the loop body on `row` with the identifiers
\* seen so far.  row[col] on a row with fewer cells raises IndexError, which
\* the except clause of line 340 does not name.
ProcessRow(row, headers, seen) ==
    LET trade_num_col == ColumnOf(headers, "trade_num")
        datetime_col == headers["datetime"]
        pnl_col == headers["pnl"]
    IN  IF \/ trade_num_col # 0 /\ ~HasCell(row, trade_num_col)
           \/ ~HasCell(row, datetime_col)
           \/ ~HasCell(row, pnl_col)
        THEN Escape(seen)
        ELSE
        LET trade_num == IF trade_num_col # 0 THEN row[trade_num_col] ELSE None
            datetime_val == row[datetime_col]
            pnl_val == row[pnl_col]
        IN  IF ~Truthy(datetime_val) \/ pnl_val = None THEN Skip(seen)
            ELSE IF IsDuplicate(trade_num, seen) THEN Skip(seen)
            ELSE LET d == ParseDateInline(datetime_val)
                 IN  IF d.kind = "raise" THEN Escape(seen)
                     ELSE IF d.kind = "skip" THEN Skip(seen)
                     ELSE LET p == ParsePnlInline(pnl_val)
                          IN  IF p.kind # "ok" THEN Skip(seen)
                              ELSE Accept(MakeTrade(d.date, p.pnl, trade_num),
                                          MarkSeen(seen, trade_num))

\* lines 378-393, mutated: the except clause of line 392 names IndexError too
ParseDate_CatchesIndexError(datetime_val) ==
    IF datetime_val.t = "DateTime"
    THEN IF DateAfter(datetime_val.d, CurrentDate) THEN [kind |-> "none"]
         ELSE IF datetime_val.d.year < MinYear THEN [kind |-> "none"]
         ELSE [kind |-> "ok", date |-> datetime_val.d]
    ELSE LET tokens == Split(Str(datetime_val))
         IN  IF tokens = <<>> THEN [kind |-> "none"]
             ELSE LET parsed == Strptime(tokens[1])
                  IN  IF ~parsed.ok THEN [kind |-> "none"]
                      ELSE IF DateAfter(parsed.date, CurrentDate) THEN [kind |-> "none"]
                      ELSE IF parsed.date.year < MinYear THEN [kind |-> "none"]
                      ELSE [kind |-> "ok", date |-> parsed.date]

\* lines 378-393: _parse_date; "none" stands for the return of None, "raise"
\* for the IndexError of [0] on an empty split(), which the except clause of
\* line 392 does not name
ParseDate(datetime_val) ==
    IF datetime_val.t = "DateTime"
    THEN IF DateAfter(datetime_val.d, CurrentDate) THEN [kind |-> "none"]
         ELSE IF datetime_val.d.year < MinYear THEN [kind |-> "none"]
         ELSE [kind |-> "ok", date |-> datetime_val.d]
    ELSE LET tokens == Split(Str(datetime_val))
         IN  IF tokens = <<>> THEN [kind |-> "raise"]
             ELSE LET parsed == Strptime(tokens[1])
                  IN  IF ~parsed.ok THEN [kind |-> "none"]
                      ELSE IF DateAfter(parsed.date, CurrentDate) THEN [kind |-> "none"]
                      ELSE IF parsed.date.year < MinYear THEN [kind |-> "none"]
                      ELSE [kind |-> "ok", date |-> parsed.date]

\* lines 395-407: _parse_pnl; "none" stands for the return of None
ParsePnl(pnl_val) ==
    IF pnl_val.t = "Num" THEN [kind |-> "ok", pnl |-> FloatOfInt(pnl_val.v)]
    ELSE IF pnl_val.t = "Text"
    THEN LET cleaned == Strip(RemoveChar(RemoveChar(pnl_val.s, ","), "$"))
         IN  IF cleaned = <<>> \/ cleaned = <<"-">> THEN [kind |-> "none"]
             ELSE LET f == FloatOfStr(cleaned)
                  IN  IF f.ok THEN [kind |-> "ok", pnl |-> f.val]
                      ELSE [kind |-> "none"]
    ELSE [kind |-> "none"]

\* lines 350-376: _process_single_trade on `row` with the identifiers seen so
\* far; Skip stands for the return of None, Accept for the return of a trade,
\* Escape for an exception that leaves the method (nothing in it catches the
\* IndexError of row[...] on a row with fewer cells)
ProcessSingleTrade(row, hs, seen) ==
    IF \/ "trade_num" \in DOMAIN hs /\ ~HasCell(row, hs["trade_num"])
       \/ ~HasCell(row, hs["datetime"])
       \/ ~HasCell(row, hs["pnl"])
    THEN Escape(seen)
    ELSE
    LET trade_num == IF "trade_num" \in DOMAIN hs THEN row[hs["trade_num"]] ELSE None
        datetime_val == row[hs["datetime"]]
        pnl_val == row[hs["pnl"]]
    IN  IF ~Truthy(datetime_val) \/ pnl_val = None THEN Skip(seen)
        ELSE IF Truthy(trade_num) /\ trade_num \in seen THEN Skip(seen)
        ELSE LET trade_date == ParseDate(datetime_val)
             IN  IF trade_date.kind = "raise" THEN Escape(seen)
                 ELSE IF trade_date.kind = "none" THEN Skip(seen)
                 ELSE LET pnl == ParsePnl(pnl_val)
                      IN  IF pnl.kind = "none" THEN Skip(seen)
                          ELSE Accept(MakeTrade(trade_date.date, pnl.pnl, trade_num),
                                      IF Truthy(trade_num)
                                      THEN seen \cup {trade_num} ELSE seen)

\* ------------------------------------------------------------------ configuration

\* DEFAULT_CONFIG["sheet_names"]
SheetNamesConfig ==
    << <<"L", "i", "s", "t", " ", "o", "f", " ", "t", "r", "a", "d", "e", "s">>,
       <<"l", "i", "s", "t", " ", "o", "f", " ", "t", "r", "a", "d", "e", "s">> >>

DateTimeHeader == <<"D", "a", "t", "e", "/", "T", "i", "m", "e">>

PnlHeader == <<"P", "&", "L", " ", "U", "S", "D">>

TradeNumHeader == <<"T", "r", "a", "d", "e", " ", "#">>

TypeHeader == <<"T", "y", "p", "e">>

\* DEFAULT_CONFIG["excel_columns"], in dict order
ExcelColumns ==
    << [key |-> "datetime", name |-> DateTimeHeader],
       [key |-> "pnl", name |-> PnlHeader],
       [key |-> "trade_num", name |-> TradeNumHeader],
       [key |-> "type", name |-> TypeHeader] >>

\* ------------------------------------------------------------------ sheet locator

\* target_name.lower() of every fragment of sheet_names
LoweredFragments(sheet_names) ==
    {Lower(sheet_names[k]) : k \in 1..Len(sheet_names)}

\* lines 206-207: table `name` matches some fragment
SheetMatches(name, lowered) ==
    \E target \in lowered : Contains(Lower(name), target)

\* the first of the tables `hits`, 0 when there is none
FirstOf(hits) ==
    IF hits = {} THEN 0 ELSE CHOOSE n \in hits : \A m \in hits : n <= m

\* lines 204-212, mutated: the loops are nested the other way round, the
\* fragments outside and the tables inside
FindTradesSheet_FragmentFirst(sheetnames, sheet_names) ==
    LET matching(k) == {n \in 1..Len(sheetnames) :
                          Contains(Lower(sheetnames[n]), Lower(sheet_names[k]))}
        frags == {k \in 1..Len(sheet_names) : matching(k) # {}}
    IN  IF frags = {} THEN 0 ELSE FirstOf(matching(FirstOf(frags)))

\* lines 202-212: index in wb.sheetnames of the sheet returned, 0 for None
FindTradesSheet(sheetnames, sheet_names) ==
    FirstOf({n \in 1..Len(sheetnames) :
                SheetMatches(sheetnames[n], LoweredFragments(sheet_names))})

\* lines 220-228, mutated: the comparison of line 225 ignores case
FieldOf_IgnoreCase(header) ==
    IF ~Truthy(header) THEN ""
    ELSE LET header_str == Lower(Strip(Str(header)))
             hits == {k \in 1..Len(ExcelColumns) :
                        Lower(ExcelColumns[k].name) = header_str}
         IN  IF hits = {} THEN ""
             ELSE ExcelColumns[CHOOSE k \in hits : \A j \in hits : k <= j].key

\* lines 220-228: the field a header cell resolves, "" when it resolves none;
\* the break at line 228 keeps the first configured field that matches
FieldOf(header) ==
    IF ~Truthy(header) THEN ""
    ELSE LET header_str == Strip(Str(header))
             hits == {k \in 1..Len(ExcelColumns) : ExcelColumns[k].name = header_str}
         IN  IF hits = {} THEN ""
             ELSE ExcelColumns[CHOOSE k \in hits : \A j \in hits : k <= j].key

\* lines 215-228, mutated: line 226 keeps the column a field already has
HeadersOf_First(first_row) ==
    LET field == [c \in 1..Len(first_row) |-> FieldOf(first_row[c])]
        found == {field[c] : c \in 1..Len(first_row)} \ {""}
    IN  [f \in found |->
            CHOOSE c \in 1..Len(first_row) :
                /\ field[c] = f
                /\ \A c2 \in 1..Len(first_row) : field[c2] = f => c <= c2]

\* lines 215-228: headers after the scan; a later column overwrites an earlier
HeadersOf(first_row) ==
    LET field == [c \in 1..Len(first_row) |-> FieldOf(first_row[c])]
        found == {field[c] : c \in 1..Len(first_row)} \ {""}
    IN  [f \in found |->
            CHOOSE c \in 1..Len(first_row) :
                /\ field[c] = f
                /\ \A c2 \in 1..Len(first_row) : field[c2] = f => c2 <= c]

RequiredColumns == <<"datetime", "pnl">>

\* lines 230-231
MissingColumns(headers) ==
    SelectSeq(RequiredColumns, LAMBDA col : col \notin DOMAIN headers)

\* column_config.get(col, col): the configured header text of a field
ConfiguredName(col) ==
    LET known == {k \in 1..Len(ExcelColumns) : ExcelColumns[k].key = col}
    IN  ExcelColumns[CHOOSE k \in known : TRUE].name

\* line 234, mutated: only the first missing field is named
ColumnNames_First(missing_columns) ==
    <<ConfiguredName(missing_columns[1])>>

\* line 234: column_names
ColumnNames(missing_columns) ==
    [k \in 1..Len(missing_columns) |-> ConfiguredName(missing_columns[k])]

\* sep.join(words)
RECURSIVE Join(_, _)
Join(words, sep) ==
    IF words = <<>> THEN <<>>
    ELSE IF Len(words) = 1 THEN words[1]
    ELSE words[1] \o sep \o Join(Tail(words), sep)

MissingPrefix ==
    <<"M", "i", "s", "s", "i", "n", "g", " ", "r", "e", "q", "u", "i", "r",
      "e", "d", " ", "c", "o", "l", "u", "m", "n", "s", ":", " ">>

\* line 235: the text of the ValueError
MissingMessage(missing_columns) ==
    MissingPrefix \o Join(ColumnNames(missing_columns), <<",", " ">>)

RuntimePrefix ==
    <<"E", "r", "r", "o", "r", " ", "p", "r", "o", "c", "e", "s", "s", "i",
      "n", "g", " ", "E", "x", "c", "e", "l", " ", "f", "i", "l", "e", ":",
      " ">>

\* line 200: the text of the RuntimeError raised for an exception of text e
ErrorMessage(e) == RuntimePrefix \o e

\* ------------------------------------------------------------------ statistics

\* an empty dict
EmptyDict == [k \in {} |-> 0]

\* sum(d.values())
RECURSIVE SumValues(_)
SumValues(d) ==
    IF DOMAIN d = {} THEN 0
    ELSE LET k == CHOOSE x \in DOMAIN d : TRUE
         IN  d[k] + SumValues([x \in DOMAIN d \ {k} |-> d[x]])

\* line 338, mutated: = in place of +=
AddToDay_Overwrite(daily, date_key, pnl) ==
    [k \in DOMAIN daily \cup {date_key} |-> IF k = date_key THEN pnl ELSE daily[k]]

\* line 338, mutated: a day whose sum is zero gets no key
AddToDay_DropZero(daily, date_key, pnl) ==
    LET sum == (IF date_key \in DOMAIN daily THEN daily[date_key] ELSE 0) + pnl
        keys == IF sum = 0 THEN DOMAIN daily \ {date_key}
                ELSE DOMAIN daily \cup {date_key}
    IN  [k \in keys |-> IF k = date_key THEN sum ELSE daily[k]]

\* line 338 on a defaultdict(float): daily_pnl_dict[date_key] += pnl
AddToDay(daily, date_key, pnl) ==
    [k \in DOMAIN daily \cup {date_key} |->
        IF k = date_key
        THEN (IF k \in DOMAIN daily THEN daily[k] ELSE 0) + pnl
        ELSE daily[k]]

\* lines 425-429, mutated: total_pnl is added to inside the test of line 428
RECURSIVE TotalPnl_Wins(_)
TotalPnl_Wins(trades) ==
    IF trades = <<>> THEN 0
    ELSE TotalPnl_Wins(SubSeq(trades, 1, Len(trades) - 1))
            + (IF trades[Len(trades)].pnl > 0 THEN trades[Len(trades)].pnl ELSE 0)

\* lines 425-429: total_pnl accumulated over the trades
RECURSIVE TotalPnl(_)
TotalPnl(trades) ==
    IF trades = <<>> THEN 0
    ELSE TotalPnl(SubSeq(trades, 1, Len(trades) - 1)) + trades[Len(trades)].pnl

\* lines 409-442, mutated: line 434 divides without asking for trading_days > 0
CalculateStats_Unguarded(trades, daily_pnl) ==
    IF trades = <<>>
    THEN [total_pnl |-> 0, win_rate |-> Zero, avg_daily |-> Zero, total_trades |-> 0]
    ELSE LET total_trades == Len(trades)
             total_pnl == TotalPnl(trades)
             winning_trades == Cardinality({k \in 1..Len(trades) : trades[k].pnl > 0})
             win_rate == IF total_trades > 0
                         THEN Divide(winning_trades * 100, total_trades)
                         ELSE Zero
             trading_days == Cardinality({k \in DOMAIN daily_pnl : daily_pnl[k] # 0})
             avg_daily == Divide(total_pnl, trading_days)
         IN  [total_pnl |-> total_pnl, win_rate |-> win_rate,
              avg_daily |-> avg_daily, total_trades |-> total_trades]

\* lines 409-442, mutated: line 427 tests pnl >= 0
CalculateStats_ZeroWins(trades, daily_pnl) ==
    IF trades = <<>>
    THEN [total_pnl |-> 0, win_rate |-> Zero, avg_daily |-> Zero, total_trades |-> 0]
    ELSE LET total_trades == Len(trades)
             total_pnl == TotalPnl(trades)
             winning_trades == Cardinality({k \in 1..Len(trades) : trades[k].pnl >= 0})
             win_rate == IF total_trades > 0
                         THEN Divide(winning_trades * 100, total_trades)
                         ELSE Zero
             trading_days == Cardinality({k \in DOMAIN daily_pnl : daily_pnl[k] # 0})
             avg_daily == IF trading_days > 0
                          THEN Divide(total_pnl, trading_days)
                          ELSE Zero
         IN  [total_pnl |-> total_pnl, win_rate |-> win_rate,
              avg_daily |-> avg_daily, total_trades |-> total_trades]

\* lines 409-442, mutated: line 433 counts every key of daily_pnl
CalculateStats_AllDays(trades, daily_pnl) ==
    IF trades = <<>>
    THEN [total_pnl |-> 0, win_rate |-> Zero, avg_daily |-> Zero, total_trades |-> 0]
    ELSE LET total_trades == Len(trades)
             total_pnl == TotalPnl(trades)
             winning_trades == Cardinality({k \in 1..Len(trades) : trades[k].pnl > 0})
             win_rate == IF total_trades > 0
                         THEN Divide(winning_trades * 100, total_trades)
                         ELSE Zero
             trading_days == Cardinality(DOMAIN daily_pnl)
             avg_daily == IF trading_days > 0
                          THEN Divide(total_pnl, trading_days)
                          ELSE Zero
         IN  [total_pnl |-> total_pnl, win_rate |-> win_rate,
              avg_daily |-> avg_daily, total_trades |-> total_trades]

\* lines 409-442
CalculateStats(trades, daily_pnl) ==
    IF trades = <<>>
    THEN [total_pnl |-> 0, win_rate |-> Zero, avg_daily |-> Zero, total_trades |-> 0]
    ELSE LET total_trades == Len(trades)
             total_pnl == TotalPnl(trades)
             winning_trades == Cardinality({k \in 1..Len(trades) : trades[k].pnl > 0})
             win_rate == IF total_trades > 0
                         THEN Divide(winning_trades * 100, total_trades)
                         ELSE Zero
             trading_days == Cardinality({k \in DOMAIN daily_pnl : daily_pnl[k] # 0})
             avg_daily == IF trading_days > 0
                          THEN Divide(total_pnl, trading_days)
                          ELSE Zero
         IN  [total_pnl |-> total_pnl, win_rate |-> win_rate,
              avg_daily |-> avg_daily, total_trades |-> total_trades]

\* ------------------------------------------------------------------ inputs

\* the longest sheet of the model, in data rows
MaxRows == 3

Jan5 == Date(2024, 1, 5)

Jan6 == Date(2024, 1, 6)

Jan7 == Date(2024, 1, 7)

Jan6Text ==
    <<"2", "0", "2", "4", "-", "0", "1", "-", "0", "6", " ", "1", "0", ":", "3", "0">>

SlashText == <<"0", "1", "/", "0", "5", "/", "2", "0", "2", "4">>

BlankText == <<" ", " ">>

DollarText == <<"$", "1", ",", "2", "3", "4", ".", "5", "6">>

DashText == <<"-">>

\* Data rows as openpyxl yields them, <<Trade #, Date/Time, P&L USD>>: valid
\* rows with equal, distinct, zero and absent identifiers on two days, one row
\* for each way a row can fail, and rows shorter than the header row
\* (a read-only sheet without dimensions pads each row to its own last cell).
SampleRows ==
    { <<Num(1), DateTime(Jan5), Num(100)>>,
      <<Num(1), Text(Jan6Text), Num(-100)>>,
      <<Num(2), DateTime(Jan5), Num(-100)>>,
      <<Num(0), DateTime(Jan5), Num(100)>>,
      <<None, DateTime(Jan6), Text(DollarText)>>,
      <<Num(1), Text(SlashText), Num(100)>>,
      <<Num(1), DateTime(Jan7), Num(100)>>,
      <<Num(1), DateTime(Jan5), Text(DashText)>>,
      <<Num(2), Text(BlankText), Num(100)>>,
      <<Num(1), None, Num(100)>>,
      <<Num(2), DateTime(Jan5), None>>,
      <<Num(1)>>,
      <<>> }

RowSeqs == UNION {[1..n -> SampleRows] : n \in 0..MaxRows}

FewRowSeqs == {<<>>, << <<Num(1), DateTime(Jan5), Num(100)>> >>}

SummaryName == <<"S", "u", "m", "m", "a", "r", "y">>

TradesName ==
    <<"L", "I", "S", "T", " ", "o", "f", " ", "t", "r", "a", "d", "e", "s", " ", "Q", "1">>

FullHeader == <<Text(TradeNumHeader), Text(DateTimeHeader), Text(PnlHeader)>>

NoPnlHeader == <<Text(TradeNumHeader), Text(DateTimeHeader), Text(TypeHeader)>>

Sheet(first_row, rows) == [first_row |-> first_row, rows |-> rows]

\* The workbooks process_file is given: a trades sheet after a summary sheet
\* with every row sequence, and workbooks that fail sheet lookup or header
\* resolution.
Workbooks ==
    {[sheetnames |-> <<SummaryName, TradesName>>,
      sheets |-> <<Sheet(<<>>, <<>>), Sheet(FullHeader, rs)>>] : rs \in RowSeqs}
    \cup {[sheetnames |-> <<SummaryName>>,
           sheets |-> <<Sheet(FullHeader, rs)>>] : rs \in FewRowSeqs}
    \cup {[sheetnames |-> <<TradesName>>,
           sheets |-> <<Sheet(NoPnlHeader, rs)>>] : rs \in FewRowSeqs}

\* ------------------------------------------------------------------ state

VARIABLES
    wb,                       \* the workbook at file_path
    trades,                   \* self.trades
    daily_pnl,                \* self.daily_pnl
    stats,                    \* self.stats
    sheet_names,              \* self.config["sheet_names"]
    pc,                       \* where process_file stands
    headers,                  \* headers of the last _process_trades call
    all_rows,                 \* all_rows of the last _process_trades call
    i,                        \* _process_trades: 1 + the loop index i
    trades_list,              \* _process_trades: trades_list
    daily_pnl_dict,           \* _process_trades: daily_pnl_dict
    processed_trade_numbers,  \* _process_trades: processed_trade_numbers
    last,                     \* _process_trades: how the latest iteration ended
    result,                   \* how the last process_file call ended
    prev,                     \* how the call before it ended
    reused,                   \* the running call is on a processor used before
    held,                     \* the trades list that call returned, as it is now
    alias,                    \* the names that refer to that list object
    file_size,                \* os.path.getsize(file_path)
    progress_callback,        \* the progress_callback argument of process_file
    log,                      \* the messages progress_callback got in this call
    app_trades,               \* StrategyAnalyzer: self.trades
    app_daily_pnl,            \* StrategyAnalyzer: self.daily_pnl
    app_stats,                \* StrategyAnalyzer: self.stats
    loading_dialog,           \* StrategyAnalyzer: self.loading_dialog
    threads,                  \* the threads process_file_background started
    current_month,            \* StrategyAnalyzer: self.current_month
    current_year,             \* StrategyAnalyzer: self.current_year
    moves                     \* the month shown before each of the last two moves

vars == <<wb, sheet_names, trades, daily_pnl, stats, pc, headers, all_rows, i, trades_list,
          daily_pnl_dict, processed_trade_numbers, last, result, prev, reused,
          held, alias, file_size, progress_callback, log, app_trades,
          app_daily_pnl, app_stats, loading_dialog, threads, current_month,
          current_year, moves>>

locals == <<headers, all_rows, i, trades_list, daily_pnl_dict,
            processed_trade_numbers, last>>

\* what the caller of process_file chooses
given == <<sheet_names, file_size, progress_callback>>

\* the data the application shows
shown == <<app_trades, app_daily_pnl, app_stats>>

\* the month the calendar shows
month == <<current_month, current_year, moves>>

\* the state of the StrategyAnalyzer
app == <<shown, loading_dialog, threads, month>>

NoResult == [status |-> "none"]

\* RuntimeError raised by line 200; stage and row tell where the cause arose
Raised(stage, row) == [status |-> "raised", stage |-> stage, row |-> row]

\* the same, with the text of the RuntimeError
RaisedWith(stage, row, message) ==
    [status |-> "raised", stage |-> stage, row |-> row, message |-> message]

\* lines 193-197
Returned(t, d, s) == [status |-> "ok", trades |-> t, daily_pnl |-> d, stats |-> s]

\* the accumulators of the loop are dropped
DropAccumulators ==
    /\ i' = 0
    /\ trades_list' = <<>>
    /\ daily_pnl_dict' = EmptyDict
    /\ processed_trade_numbers' = {}
    /\ last' = "none"

\* _process_trades was not entered
NoRows ==
    /\ headers' = EmptyDict
    /\ all_rows' = <<>>

\* lines 155-159: TradeProcessor(config), before any call
Fresh ==
    /\ trades = <<>>
    /\ daily_pnl = EmptyDict
    /\ stats = EmptyDict
    /\ pc = "idle"
    /\ headers = EmptyDict
    /\ all_rows = <<>>
    /\ i = 0
    /\ trades_list = <<>>
    /\ daily_pnl_dict = EmptyDict
    /\ processed_trade_numbers = {}
    /\ last = "none"
    /\ result = NoResult
    /\ prev = NoResult
    /\ reused = FALSE
    /\ held = <<>>
    /\ alias = {}
    /\ log = <<>>

\* lines 482-486: the StrategyAnalyzer before any file is loaded
NothingLoaded ==
    /\ app_trades = <<>>
    /\ app_daily_pnl = EmptyDict
    /\ app_stats = EmptyDict
    /\ loading_dialog = "none"
    /\ threads = <<>>

\* lines 485-486, on the date of the runs
ThisMonth ==
    /\ current_month = CurrentDate.month
    /\ current_year = CurrentDate.year
    /\ moves = <<>>

\* lines 478-486: StrategyAnalyzer(root)
Started == NothingLoaded /\ ThisMonth

\* line 156: the configuration is DEFAULT_CONFIG
DefaultConfig == sheet_names = SheetNamesConfig

\* line 165: the size from which a file is not small
Megabyte == 1024 * 1024

\* process_file(file_path): no progress_callback, and a file of less than 1 MiB
Unobserved == progress_callback = "None" /\ file_size = Megabyte - 1

Init ==
    wb \in Workbooks /\ DefaultConfig /\ Unobserved /\ Fresh /\ Started

\* ------------------------------------------------------------------ process_file

\* line 257, mutated: the list of the previous call is carried on
NewTradesList_Carry(self_trades) == self_trades

\* line 257: trades_list = []
NewTradesList(self_trades) == <<>>

\* line 258, mutated: the buckets of the previous call are carried on
NewDailyDict_Carry(self_daily_pnl) == self_daily_pnl

\* line 258: daily_pnl_dict = defaultdict(float)
NewDailyDict(self_daily_pnl) == EmptyDict

\* line 336, mutated: the trade is put in front
AppendTrade_Front(list, trade) == <<trade>> \o list

\* line 336: trades_list.append(trade)
AppendTrade(list, trade) == Append(list, trade)

\* `name = <a new object>`: name no longer refers to the object it named
Rebound(names, name) == names \ {name}

\* `target = source`: target refers to the object source names
Assigned(names, target, source) ==
    IF source \in names THEN names \cup {target} ELSE names \ {target}

\* `name.append(...)`: the object `name` refers to becomes `new`; `object` is
\* the object that the names of `names` refer to
InPlace(object, names, name, new) == IF name \in names THEN new ELSE object

Idle == pc \in {"idle", "done", "raised"}

\* lines 193-194: the list in the result of the call that returned is the
\* object self.trades refers to, until this processor is replaced
AliasAtCall == IF pc = "done" THEN {"self.trades"} ELSE {}

\* a call begun on this processor: which call ended before it, and the trades
\* list the caller holds from it
Called ==
    /\ prev' = result
    /\ reused' = (pc # "idle")
    /\ held' = IF result.status = "ok" THEN result.trades ELSE <<>>

\* the exception leaves process_file by line 200
Raise(stage, row) ==
    /\ pc' = "raised"
    /\ result' = Raised(stage, row)
    /\ DropAccumulators

\* lines 186, 239-276: _process_trades up to the loop; with no data row it
\* returns at line 254
EnterProcessTrades(hs, rows) ==
    /\ trades' = <<>>
    /\ alias' = Rebound(Rebound(AliasAtCall, "self.trades"), "trades_list")
    /\ daily_pnl' = EmptyDict
    /\ result' = NoResult
    /\ headers' = hs
    /\ all_rows' = rows
    /\ IF Len(rows) = 0
       THEN /\ pc' = "stats"
            /\ DropAccumulators
       ELSE /\ pc' = "rows"
            /\ i' = 1
            /\ trades_list' = NewTradesList(trades)
            /\ daily_pnl_dict' = NewDailyDict(daily_pnl)
            /\ processed_trade_numbers' = {}
            /\ last' = "none"

\* lines 183-186, 230-237: a required column is unresolved, ValueError at
\* line 235; otherwise the rows are processed
WithHeaders(hs, rows) ==
    IF MissingColumns(hs) # <<>>
    THEN /\ pc' = "raised"
         /\ result' = RaisedWith("headers", 0,
                                 ErrorMessage(MissingMessage(MissingColumns(hs))))
         /\ DropAccumulators
         /\ NoRows
         /\ alias' = AliasAtCall
         /\ UNCHANGED <<trades, daily_pnl>>
    ELSE EnterProcessTrades(hs, rows)

\* lines 176-178, mutated: without a matching table the first table is read
WithSheet_FirstTable(book, sheet) ==
    LET read == IF sheet = 0 THEN 1 ELSE sheet
    IN  WithHeaders(HeadersOf(book.sheets[read].first_row), book.sheets[read].rows)

\* lines 176-183: no sheet name matches, ValueError at line 178; otherwise the
\* first row of the sheet is analysed
WithSheet(book, sheet) ==
    IF sheet = 0
    THEN /\ Raise("sheet", 0)
         /\ NoRows
         /\ alias' = AliasAtCall
         /\ UNCHANGED <<trades, daily_pnl>>
    ELSE WithHeaders(HeadersOf(book.sheets[sheet].first_row),
                     book.sheets[sheet].rows)

\* lines 165-186: the callback is used, and handed on, for a file that is not
\* small
IsSmallFile == file_size < Megabyte

Reports == progress_callback # "None" /\ ~IsSmallFile

\* a message to the callback: its fixed text and the values formatted into it
\* (the percentage of line 280 is told by the two counts and left out)
Message(text, args) == [text |-> text, args |-> args]

\* line 261: from this number of rows on a sheet is reported as a large one
LargeSheet == 1000

\* line 264: up to this number of rows the loop reports nothing
QuietSheet == 100

\* lines 261-269
ShowProgress(total_rows) ==
    IF total_rows < LargeSheet THEN total_rows > QuietSheet ELSE TRUE

Max(a, b) == IF a >= b THEN a ELSE b

\* lines 261-269
ProgressInterval(total_rows) ==
    IF total_rows < LargeSheet THEN Max(1, total_rows \div 10)
    ELSE Max(1, total_rows \div 100)

\* line 279: the pass with loop index i0 begins with a report
Ticks(i0, total_rows) ==
    Reports /\ ShowProgress(total_rows) /\ i0 % ProgressInterval(total_rows) = 0

\* lines 279-281
Ticked(messages, i0, total_rows) ==
    IF Ticks(i0, total_rows)
    THEN Append(messages, Message("Processing trades...", <<i0, total_rows>>))
    ELSE messages

\* lines 219-228: one message for each header cell that resolves a field
FoundColumns(first_row) ==
    LET found == SelectSeq(first_row, LAMBDA header : FieldOf(header) # "")
    IN  [k \in 1..Len(found) |->
            Message("Found column", <<ConfiguredName(FieldOf(found[k]))>>)]

\* lines 246-276: the messages of _process_trades before the loop
ReadingMessages(rows) ==
    <<Message("Reading Excel data into memory...", <<>>)>>
    \o (IF Len(rows) = 0 THEN <<Message("No data rows found", <<>>)>>
        ELSE IF ShowProgress(Len(rows))
        THEN <<Message("Processing trade data...", <<>>)>>
        ELSE <<>>)

\* lines 167-186, 208-209, 226-227, 246-276: the messages up to the loop, or
\* up to the exception
StartMessages(book) ==
    LET sheet == FindTradesSheet(book.sheetnames, sheet_names)
    IN  <<Message("Opening Excel file...", <<>>),
          Message("Scanning for trading data sheets...", <<>>)>>
        \o (IF sheet = 0 THEN <<>>
            ELSE <<Message("Found sheet", <<book.sheetnames[sheet]>>),
                   Message("Analyzing column headers...", <<>>)>>
                 \o FoundColumns(book.sheets[sheet].first_row)
                 \o (IF MissingColumns(HeadersOf(book.sheets[sheet].first_row)) # <<>>
                     THEN <<>>
                     ELSE ReadingMessages(book.sheets[sheet].rows)))

\* lines 278-341: one pass of the loop on `row`: the report of lines 279-281
\* when the pass ticks, then the body, mutated: a pass that reports goes
\* on to the next row
Iterate_ReportOnly(row, hs, seen, ticks) ==
    IF ticks THEN Skip(seen) ELSE ProcessRow(row, hs, seen)

\* lines 278-341: one pass of the loop on `row`: the report of lines 279-281
\* when the pass ticks, then the body
Iterate(row, hs, seen, ticks) == ProcessRow(row, hs, seen)

\* the outcome of the pass the loop is about to make
ThisPass ==
    Iterate(all_rows[i], headers, processed_trade_numbers,
            Ticks(i - 1, Len(all_rows)))

\* lines 161-186, 239-276: process_file up to the first data row
ProcessFile(book) ==
    /\ Idle
    /\ Called
    /\ WithSheet(book, FindTradesSheet(book.sheetnames, sheet_names))
    /\ log' = IF Reports THEN StartMessages(book) ELSE <<>>
    /\ UNCHANGED <<stats, given, app>>

\* process_file(file_path) on the workbook at file_path
ProcessFileStart == ProcessFile(wb) /\ UNCHANGED wb

InLoop == pc = "rows" /\ i <= Len(all_rows)

\* lines 278-338: the row is accepted
RowAccept ==
    /\ InLoop
    /\ log' = Ticked(log, i - 1, Len(all_rows))
    /\ LET o == ThisPass
       IN  /\ o.kind = "accept"
           /\ processed_trade_numbers' = o.seen
           /\ trades_list' = AppendTrade(trades_list, o.trade)
           /\ daily_pnl_dict' =
                 AddToDay(daily_pnl_dict, Strftime(o.trade.date), o.trade.pnl)
    /\ held' = InPlace(held, alias, "trades_list", trades_list')
    /\ i' = i + 1
    /\ last' = "accept"
    /\ UNCHANGED <<wb, given, app, trades, daily_pnl, stats, pc, headers, all_rows, result,
                   prev, reused, alias>>

\* lines 278-341: the row is skipped by a continue
RowSkip ==
    /\ InLoop
    /\ log' = Ticked(log, i - 1, Len(all_rows))
    /\ LET o == ThisPass
       IN  /\ o.kind = "skip"
           /\ processed_trade_numbers' = o.seen
    /\ i' = i + 1
    /\ last' = "skip"
    /\ UNCHANGED <<wb, given, app, trades, daily_pnl, stats, pc, headers, all_rows,
                   trades_list, daily_pnl_dict, result, prev, reused, held,
                   alias>>

\* lines 278-341, 199-200: the row raises past the except clause of line 340
RowRaise ==
    /\ InLoop
    /\ log' = Ticked(log, i - 1, Len(all_rows))
    /\ ThisPass.kind = "raise"
    /\ Raise("rows", i)
    /\ UNCHANGED <<wb, given, app, trades, daily_pnl, stats, headers, all_rows, prev, reused,
                   held, alias>>

\* lines 343-348: the loop is over
AssignResults ==
    /\ pc = "rows"
    /\ i > Len(all_rows)
    /\ trades' = trades_list
    /\ daily_pnl' = daily_pnl_dict
    /\ log' = IF Reports
              THEN Append(log, Message("Successfully processed unique trades",
                                       <<Len(trades_list)>>))
              ELSE log
    /\ pc' = "stats"
    /\ alias' = Rebound(Assigned(alias, "self.trades", "trades_list"),
                        "trades_list")
    /\ DropAccumulators
    /\ UNCHANGED <<wb, given, app, stats, headers, all_rows, result, prev, reused, held>>

\* lines 188-200: calculate_stats, then the return to the caller
ReturnStep ==
    /\ pc = "stats"
    /\ LET computed == CalculateStats(trades, daily_pnl)
       IN  IF ZeroDivisionError \in {computed.win_rate, computed.avg_daily}
           THEN \* lines 199-200: the error leaves calculate_stats before
                \* self.stats is assigned and becomes a RuntimeError
                /\ stats' = stats
                /\ result' = Raised("stats", 0)
                /\ pc' = "raised"
           ELSE /\ stats' = computed
                /\ result' = Returned(trades, daily_pnl, computed)
                /\ pc' = "done"
    /\ UNCHANGED <<wb, given, trades, daily_pnl, locals, prev, reused, held, alias,
                   log>>

\* lines 188-197: calculate_stats, then the return
CalculateStatsReturn == ReturnStep /\ UNCHANGED app

\* lines 155-159: a new TradeProcessor replaces the used one
NewProcessor ==
    /\ pc \in {"done", "raised"}
    /\ trades' = <<>>
    /\ daily_pnl' = EmptyDict
    /\ stats' = EmptyDict
    /\ pc' = "idle"
    /\ alias' = Rebound(alias, "self.trades")
    /\ UNCHANGED <<wb, given, app, locals, result, prev, reused, held, log>>

Next ==
    \/ ProcessFileStart
    \/ RowAccept
    \/ RowSkip
    \/ RowRaise
    \/ AssignResults
    \/ CalculateStatsReturn
    \/ NewProcessor

Spec == Init /\ [][Next]_vars

\* ------------------------------------------------------------------ runs on different files

\* the longest sheet among the files of successive runs, in data rows
MaxRunRows == 2

\* rows with the same identifier on different days, another identifier, and a
\* row shorter than the header row
RunRows ==
    { <<Num(1), DateTime(Jan5), Num(100)>>,
      <<Num(1), Text(Jan6Text), Num(-100)>>,
      <<Num(2), DateTime(Jan5), Num(-100)>>,
      <<Num(1)>> }

RunWorkbooks ==
    {[sheetnames |-> <<SummaryName, TradesName>>,
      sheets |-> <<Sheet(<<>>, <<>>), Sheet(FullHeader, rs)>>] :
        rs \in UNION {[1..n -> RunRows] : n \in 0..MaxRunRows}}
    \cup {[sheetnames |-> <<SummaryName>>, sheets |-> <<Sheet(FullHeader, <<>>)>>]}

InitRuns ==
    wb \in RunWorkbooks /\ DefaultConfig /\ Unobserved /\ Fresh /\ Started

\* process_file(file_path) on another file than the call before
ProcessOtherFile ==
    \E book \in RunWorkbooks :
        /\ book # wb
        /\ wb' = book
        /\ ProcessFile(book)

NextRuns ==
    \/ ProcessFileStart
    \/ ProcessOtherFile
    \/ RowAccept
    \/ RowSkip
    \/ RowRaise
    \/ AssignResults
    \/ CalculateStatsReturn
    \/ NewProcessor

SpecRuns == InitRuns /\ [][NextRuns]_vars

\* ------------------------------------------------------------------ one run over boundary cells

\* the longest sheet of boundary rows, in data rows
MaxCellRows == 2

Tomorrow == Date(2024, 1, 7)

FirstDay == Date(2000, 1, 1)

DayBefore == Date(1999, 12, 31)

TodayText == <<"2", "0", "2", "4", "-", "0", "1", "-", "0", "6">>

DayBeforeText == <<"1", "9", "9", "9", "-", "1", "2", "-", "3", "1">>

SignsText == <<" ", "$", ",", " ">>

WordText == <<"a", "b", "c">>

MinusText == <<"-", "5", "0", "0">>

\* rows at the boundaries of the date range
DateRows ==
    { <<None, DateTime(CurrentDate), Num(100)>>,
      <<None, DateTime(Tomorrow), Num(100)>>,
      <<None, DateTime(FirstDay), Num(100)>>,
      <<None, DateTime(DayBefore), Num(100)>>,
      <<None, Text(TodayText), Num(100)>>,
      <<None, Text(DayBeforeText), Num(100)>> }

\* rows with an empty date cell or a null pnl cell, and valid rows with and
\* without an identifier
PresenceRows ==
    { <<Num(1), None, Num(100)>>,
      <<Num(1), Text(<<>>), Num(100)>>,
      <<Num(1), Num(0), Num(100)>>,
      <<Num(1), DateTime(Jan5), None>>,
      <<Num(1), None, None>>,
      <<Num(1), DateTime(Jan5), Num(100)>>,
      <<None, DateTime(Jan5), Num(-100)>> }

\* rows with each kind of pnl cell
PnlRows ==
    { <<None, DateTime(Jan5), Text(DashText)>>,
      <<None, DateTime(Jan5), Text(<<>>)>>,
      <<None, DateTime(Jan5), Text(SignsText)>>,
      <<None, DateTime(Jan5), Text(WordText)>>,
      <<None, DateTime(Jan5), DateTime(Jan5)>>,
      <<None, DateTime(Jan5), Text(DollarText)>>,
      <<None, DateTime(Jan5), Text(MinusText)>> }

CellRows == DateRows \cup PresenceRows \cup PnlRows \cup {<<>>}

\* a header row without the identifier column
NoIdHeader == <<Text(TypeHeader), Text(DateTimeHeader), Text(PnlHeader)>>

CellWorkbooks ==
    {[sheetnames |-> <<TradesName>>, sheets |-> <<Sheet(hd, rs)>>] :
        hd \in {FullHeader, NoIdHeader},
        rs \in UNION {[1..n -> CellRows] : n \in 0..MaxCellRows}}

InitCells ==
    wb \in CellWorkbooks /\ DefaultConfig /\ Unobserved /\ Fresh /\ Started

\* the first call on a new processor
FirstCall == pc = "idle" /\ ProcessFileStart

NextOnce ==
    \/ FirstCall
    \/ RowAccept
    \/ RowSkip
    \/ RowRaise
    \/ AssignResults
    \/ CalculateStatsReturn

SpecCells == InitCells /\ [][NextOnce]_vars

\* ------------------------------------------------------------------ one run over tables and header rows

\* the most tables of a workbook
MaxSheets == 2

OrdersName == <<"m", "y", " ", "o", "r", "d", "e", "r", "s">>

NotesName == <<"N", "o", "t", "e", "s">>

TableNames == {SummaryName, TradesName, OrdersName, NotesName}

\* a configuration whose fragments match different tables
OtherSheetNames ==
    << <<"O", "r", "d", "e", "r", "s">>, <<"S", "u", "m", "m", "a", "r", "y">> >>

LowerDateTimeHeader == <<"d", "a", "t", "e", "/", "t", "i", "m", "e">>

PaddedDateTimeHeader == <<" ">> \o DateTimeHeader \o <<" ", " ">>

LongPnlHeader == PnlHeader \o <<" ", "t", "o", "t", "a", "l">>

UpperPnlHeader == <<"P", "&", "L", " ", "u", "s", "d">>

LowerTradeNumHeader == <<"t", "r", "a", "d", "e", " ", "#">>

\* header rows: each required header exact, padded with spaces, in another
\* case, inside a longer text, or replaced by another column
BookHeaders ==
    {<<Text(n), Text(d), Text(p)>> :
        n \in {TradeNumHeader, LowerTradeNumHeader},
        d \in {DateTimeHeader, PaddedDateTimeHeader, LowerDateTimeHeader, TypeHeader},
        p \in {PnlHeader, LongPnlHeader, UpperPnlHeader, TypeHeader}}

\* the first data row of the k-th table tells the table
MarkRow(k) == <<Num(k), DateTime(Jan5), Num(100)>>

BookRowSeqs == {<<>>, << <<Num(9), None, Num(100)>> >>, << <<Num(9)>> >>}

\* the tables of a workbook have different names
TableLists ==
    {names \in UNION {[1..n -> TableNames] : n \in 1..MaxSheets} :
        \A j, k \in 1..Len(names) : j # k => names[j] # names[k]}

BookWorkbooks ==
    {[sheetnames |-> names,
      sheets |-> [k \in 1..Len(names) |-> Sheet(hd, <<MarkRow(k)>> \o rs)]] :
        names \in TableLists,
        hd \in BookHeaders,
        rs \in BookRowSeqs}

InitBooks ==
    /\ wb \in BookWorkbooks
    /\ sheet_names \in {SheetNamesConfig, OtherSheetNames}
    /\ Started
    /\ Unobserved
    /\ Fresh

SpecBooks == InitBooks /\ [][NextOnce]_vars

\* ------------------------------------------------------------------ vocabulary of the claims

\* the row has a cell at every resolved column the loop reads
Complete(row, h) ==
    /\ Len(row) >= h["datetime"]
    /\ Len(row) >= h["pnl"]
    /\ Len(row) >= ColumnOf(h, "trade_num")

IdCell(row, h) == IF "trade_num" \in DOMAIN h THEN row[h["trade_num"]] ELSE None

DateCell(row, h) == row[h["datetime"]]

PnlCell(row, h) == row[h["pnl"]]

\* acceptance check 1: date cell truthy and pnl cell not null
Present(row, h) == Truthy(DateCell(row, h)) /\ PnlCell(row, h) # None

\* acceptance check 3: the date parses and lies in range
DateOk(row, h) == ParseDateInline(DateCell(row, h)).kind = "ok"

\* acceptance check 4: the amount parses
PnlOk(row, h) == ParsePnlInline(PnlCell(row, h)).kind = "ok"

\* the row passes the date and pnl checks (every check but the duplicate check)
OtherwiseValid(row, h) ==
    Complete(row, h) /\ Present(row, h) /\ DateOk(row, h) /\ PnlOk(row, h)

\* the trade an otherwise valid row stands for
TradeOf(row, h) ==
    MakeTrade(ParseDateInline(DateCell(row, h)).date,
              ParsePnlInline(PnlCell(row, h)).pnl,
              IdCell(row, h))

\* the indices of the otherwise valid rows
ValidRows(rows, h) == {k \in 1..Len(rows) : OtherwiseValid(rows[k], h)}

\* an identifier cell that holds a value
NonEmptyId(c) == c # None /\ c # Text(<<>>)

MinOf(S) == CHOOSE k \in S : \A j \in S : k <= j

\* sum of pnl over the trades of t with index in S
RECURSIVE SumPnl(_, _)
SumPnl(t, S) ==
    IF S = {} THEN 0
    ELSE LET k == CHOOSE x \in S : TRUE
         IN  t[k].pnl + SumPnl(t, S \ {k})

\* kept, from its a-th trade on, is made of the trades of otherwise valid rows
\* of `rows` taken in row order from row k on, at most one trade per row
RECURSIVE IsSubsequence(_, _, _, _, _)
IsSubsequence(kept, a, rows, k, h) ==
    IF a > Len(kept) THEN TRUE
    ELSE IF k > Len(rows) THEN FALSE
    ELSE IF OtherwiseValid(rows[k], h) /\ TradeOf(rows[k], h) = kept[a]
         THEN IsSubsequence(kept, a + 1, rows, k + 1, h)
         ELSE IsSubsequence(kept, a, rows, k + 1, h)

\* the first otherwise valid row with the identifier of `trade`
FirstWithId(trade, rows, h, valid) ==
    LET cands == {k \in valid : IdCell(rows[k], h) = trade.trade_num}
    IN  cands # {} /\ trade = TradeOf(rows[MinOf(cands)], h)

\* no two trades of `kept` share an identifier accepted by `has_id`, and each
\* such trade is the first otherwise valid row of `rows` with its identifier
FirstOfEachId(kept, rows, h, valid, has_id(_)) ==
    /\ \A a, b \in 1..Len(kept) :
          a < b /\ has_id(kept[a].trade_num)
              => kept[a].trade_num # kept[b].trade_num
    /\ \A a \in 1..Len(kept) :
          has_id(kept[a].trade_num) => FirstWithId(kept[a], rows, h, valid)

\* the rows the loop has consumed and the trades it has kept from them, while
\* it runs and after it
Consumed == IF pc = "rows" THEN SubSeq(all_rows, 1, i - 1) ELSE all_rows

Kept == IF pc = "rows" THEN trades_list ELSE trades

Ingesting == pc \in {"rows", "stats", "done"}

TruthyIds(t) == {t[k].trade_num : k \in {j \in 1..Len(t) : Truthy(t[j].trade_num)}}

\* every otherwise valid row that no otherwise valid row with the same
\* identifier precedes has its trade among `kept`
FirstValidKept(rows, h, valid, kept) ==
    \A k \in valid :
        (\A j \in valid : j < k => IdCell(rows[j], h) # IdCell(rows[k], h))
            => TradeOf(rows[k], h) \in kept

SetOf(t) == {t[a] : a \in 1..Len(t)}

\* ------------------------------------------------------------------ claims

\* C1: after an ingestion run no two retained trades share the same non-empty
\* trade_num, and for each such identifier the retained trade is the earliest
\* row carrying it among the otherwise valid rows.
C1_OneTradePerNonEmptyId ==
    pc = "done" =>
        FirstOfEachId(result.trades, all_rows, headers,
                      ValidRows(all_rows, headers), NonEmptyId)

\* C1, for identifiers that are true in Python (not None, not 0, not ""): the
\* statement above with `truthy` in place of `non-empty`.
C1_OneTradePerTruthyId ==
    pc = "done" =>
        FirstOfEachId(result.trades, all_rows, headers,
                      ValidRows(all_rows, headers), Truthy)

\* C2: an identifier is in the seen set only when its row was accepted, so a
\* valid row is kept whenever every earlier row with its identifier was
\* rejected for another reason (bad date, out-of-range date, bad pnl).
C2_SeenOnlyWhenAccepted ==
    /\ pc = "rows" => processed_trade_numbers = TruthyIds(trades_list)
    /\ Ingesting =>
          FirstValidKept(Consumed, headers,
                         ValidRows(Consumed, headers), SetOf(Kept))

\* C2 witness: the first row carries an identifier and a date that does not
\* parse, the second row reuses the identifier with valid data and is returned.
C2_Witness ==
    /\ pc = "done"
    /\ Len(all_rows) >= 2
    /\ LET r1 == all_rows[1]
           r2 == all_rows[2]
           h == headers
       IN  /\ Complete(r1, h) /\ Present(r1, h) /\ ~DateOk(r1, h)
           /\ Truthy(IdCell(r1, h))
           /\ OtherwiseValid(r2, h)
           /\ IdCell(r2, h) = IdCell(r1, h)
           /\ result.trades[1] = TradeOf(r2, h)

\* C3: for every input process_file accepts, the values of the returned
\* daily_pnl sum to stats.total_pnl.
C3_DailySumIsTotal ==
    pc = "done" => SumValues(result.daily_pnl) = result.stats["total_pnl"]

\* C3 witness: three trades on two days are returned, with a non-zero total.
C3_Witness ==
    /\ pc = "done"
    /\ Len(result.trades) = 3
    /\ Cardinality(DOMAIN result.daily_pnl) = 2
    /\ result.stats["total_pnl"] # 0

\* the keys of d are the dates of the trades of t and each value is the sum of
\* the pnl of the trades of that date
DayBuckets(t, d) ==
    /\ DOMAIN d = {Strftime(t[k].date) : k \in 1..Len(t)}
    /\ \A key \in DOMAIN d :
          d[key] = SumPnl(t, {k \in 1..Len(t) : Strftime(t[k].date) = key})

\* C4: the key set of daily_pnl is exactly the set of YYYY-MM-DD dates of the
\* retained trades, days that sum to zero included, and each value is the sum
\* of the pnl of the retained trades of that date.
C4_DailyKeysAreTradeDates ==
    /\ DayBuckets(trades, daily_pnl)
    /\ DayBuckets(trades_list, daily_pnl_dict)
    /\ pc = "done" => DayBuckets(result.trades, result.daily_pnl)

\* C4 witness: a result with a day whose trades sum to zero and another day.
C4_Witness ==
    /\ pc = "done"
    /\ \E k1, k2 \in DOMAIN result.daily_pnl :
          result.daily_pnl[k1] = 0 /\ result.daily_pnl[k2] # 0

\* C5: the retained trades are a subsequence of the input rows: same relative
\* order, at most one trade per row.
C5_RetainedIsSubsequence ==
    Ingesting => IsSubsequence(Kept, 1, Consumed, 1, headers)

\* C5 witness: three rows, the middle one rejected, the two others returned
\* in row order and different.
C5_Witness ==
    /\ pc = "done"
    /\ Len(all_rows) = 3
    /\ LET h == headers
       IN  /\ OtherwiseValid(all_rows[1], h)
           /\ Complete(all_rows[2], h) /\ ~OtherwiseValid(all_rows[2], h)
           /\ OtherwiseValid(all_rows[3], h)
           /\ result.trades = <<TradeOf(all_rows[1], h), TradeOf(all_rows[3], h)>>
           /\ result.trades[1] # result.trades[2]

\* the run has ended, by a return or by the RuntimeError of line 200
Ended == pc \in {"done", "raised"}

\* row k passes the four acceptance checks: it is otherwise valid and no
\* earlier otherwise valid row carries its identifier, when that identifier is
\* one the seen set records
Passes(rows, k, h) ==
    /\ OtherwiseValid(rows[k], h)
    /\ Truthy(IdCell(rows[k], h)) =>
          \A j \in 1..(k - 1) :
              OtherwiseValid(rows[j], h) => IdCell(rows[j], h) # IdCell(rows[k], h)

\* the trades of the rows of `rows` that pass the four checks, from row k on
RECURSIVE TradesFrom(_, _, _)
TradesFrom(rows, h, k) ==
    IF k > Len(rows) THEN <<>>
    ELSE IF Passes(rows, k, h)
         THEN <<TradeOf(rows[k], h)>> \o TradesFrom(rows, h, k + 1)
         ELSE TradesFrom(rows, h, k + 1)

\* a row with fewer cells than a resolved column index
HasShortRow == \E k \in 1..Len(all_rows) : ~Complete(all_rows[k], headers)

\* text in strict YYYY-MM-DD form
StrictYMD(tok) ==
    /\ Len(tok) = 10
    /\ tok[5] = "-" /\ tok[8] = "-"
    /\ \A k \in {1, 2, 3, 4, 6, 7, 9, 10} : IsDigit(tok[k])

\* a truthy date cell that is no datetime and whose text has no first
\* whitespace-separated token in strict YYYY-MM-DD form
BadDateText(c) ==
    /\ Truthy(c)
    /\ c.t # "DateTime"
    /\ LET words == Split(Str(c))
       IN  words = <<>> \/ ~StrictYMD(words[1])

HasBlankDate ==
    \E k \in 1..Len(all_rows) :
        /\ Complete(all_rows[k], headers)
        /\ BadDateText(DateCell(all_rows[k], headers))
        /\ Split(Str(DateCell(all_rows[k], headers))) = <<>>

\* C6: a row with fewer cells than a resolved column index is only skipped:
\* process_file returns, and returns the trades of the input without the
\* malformed rows.
C6_ShortRowOnlySkipped ==
    Ended /\ HasShortRow /\ ~HasBlankDate =>
        /\ pc = "done"
        /\ result.trades = TradesFrom(all_rows, headers, 1)

\* C7: a date cell with text that has no strict YYYY-MM-DD first token never
\* ends the run: no run is ended by the row of such a cell.
C7_BadDateTextOnlyRejected ==
    pc = "raised" /\ result.stage = "rows" =>
        LET row == all_rows[result.row]
        IN  Complete(row, headers) => ~BadDateText(DateCell(row, headers))

\* C8: a run ends by returning a complete result or by a fatal error of the
\* sheet lookup or header resolution, never by an error of a later stage.
C8_FatalOnlyFromLocator ==
    /\ pc = "done" =>
          result.status = "ok" /\ DOMAIN result = {"status", "trades", "daily_pnl", "stats"}
    /\ pc = "raised" => result.stage \in {"sheet", "headers"}

\* every row of `rows` carries an identifier, all different and none empty
DistinctNonEmptyIds(rows, h) ==
    /\ \A k \in 1..Len(rows) :
          Len(rows[k]) >= ColumnOf(h, "trade_num") /\ NonEmptyId(IdCell(rows[k], h))
    /\ \A j, k \in 1..Len(rows) :
          j < k => IdCell(rows[j], h) # IdCell(rows[k], h)

C10_SecondRunSameResult ==
    Ended /\ prev # NoResult => result = prev

\* C10 witness: the used processor returns trades a second time.
C10_Witness ==
    /\ pc = "done"
    /\ reused
    /\ prev.status = "ok"
    /\ Len(result.trades) >= 2

\* a second run on a new processor has returned trades
C10_FreshRun ==
    /\ pc = "done"
    /\ ~reused
    /\ prev.status = "ok"
    /\ Len(result.trades) >= 2

\* the day buckets of the trades of t
DailyOf(t) ==
    [key \in {Strftime(t[k].date) : k \in 1..Len(t)} |->
        SumPnl(t, {k \in 1..Len(t) : Strftime(t[k].date) = key})]

\* the result of a run over `rows` read with the header mapping h, told from
\* the rows alone
ResultOf(rows, h) ==
    LET t == TradesFrom(rows, h, 1)
    IN  Returned(t, DailyOf(t), CalculateStats(t, DailyOf(t)))

\* C11: over runs of one TradeProcessor on different files, the result of a
\* run that returns is told by the file of that run alone (no identifier seen
\* earlier rejects a row, no earlier trade or day bucket is in it), and the
\* trades list an earlier run returned is as it was returned.
C11_RunDependsOnItsInputOnly ==
    /\ pc = "done" =>
          LET sheet == wb.sheets[FindTradesSheet(wb.sheetnames, sheet_names)]
          IN  result = ResultOf(sheet.rows, HeadersOf(sheet.first_row))
    /\ prev.status = "ok" => held = prev.trades

\* C11 witness: the same processor has returned trades from two different
\* files; an identifier retained by the first run is retained again by the
\* second, whose days are other days.
C11_Witness ==
    /\ pc = "done"
    /\ reused
    /\ prev.status = "ok"
    /\ prev.trades # result.trades
    /\ \E a \in 1..Len(prev.trades), b \in 1..Len(result.trades) :
          prev.trades[a].trade_num = result.trades[b].trade_num
    /\ DOMAIN prev.daily_pnl \cap DOMAIN result.daily_pnl = {}
    /\ held # <<>>

\* an iteration of the loop has just ended by an append or a continue
AfterRow == pc = "rows" /\ i > 1

\* the row of that iteration
LastRow == all_rows[i - 1]

\* the latest iteration appended the trade of its row
Appended(row, h) ==
    /\ last = "accept"
    /\ trades_list # <<>>
    /\ trades_list[Len(trades_list)] = TradeOf(row, h)

\* the trades of t without identifier
WithoutId(t) == {k \in 1..Len(t) : t[k].trade_num = None}

\* C12: a row without identifier (a None identifier cell, or no identifier
\* column) that passes the date and pnl checks is retained, whatever rows came
\* before it; the result holds one trade for each such row.
C12_NoIdNeverDeduplicated ==
    /\ AfterRow /\ OtherwiseValid(LastRow, headers)
           /\ IdCell(LastRow, headers) = None
          => Appended(LastRow, headers)
    /\ pc = "done" =>
          Cardinality(WithoutId(result.trades)) =
              Cardinality({k \in ValidRows(all_rows, headers) :
                              IdCell(all_rows[k], headers) = None})

\* C12 witness: two equal valid rows with a None identifier cell, both
\* returned.
C12_Witness ==
    /\ pc = "done"
    /\ "trade_num" \in DOMAIN headers
    /\ Len(all_rows) = 2
    /\ all_rows[1] = all_rows[2]
    /\ all_rows[1][headers["trade_num"]] = None
    /\ Len(result.trades) = 2

\* two equal valid rows read without identifier column, both returned
C12_NoColumn ==
    /\ pc = "done"
    /\ "trade_num" \notin DOMAIN headers
    /\ Len(all_rows) = 2
    /\ all_rows[1] = all_rows[2]
    /\ all_rows[1][1] = Num(1)
    /\ Len(result.trades) = 2

\* the same character, or the same letter in the two cases
SameLetter(a, b) ==
    \/ a = b
    \/ \E k \in 1..Len(UpperCase) : {a, b} = {UpperCase[k], LowerCase[k]}

\* sub occurs in s, cases ignored
ContainsIgnoringCase(s, sub) ==
    \E off \in 0..(Len(s) - Len(sub)) :
        \A k \in 1..Len(sub) : SameLetter(s[off + k], sub[k])

\* the tables whose name holds fragment k
TablesWith(k) ==
    {n \in 1..Len(wb.sheetnames) :
        ContainsIgnoringCase(wb.sheetnames[n], sheet_names[k])}

\* the first table, in the listed order, whose name holds any fragment
FirstMatchingTable == FirstOf(UNION {TablesWith(k) : k \in 1..Len(sheet_names)})

\* C13: _find_trades_sheet returns the first table, in the workbook's order,
\* whose name holds a configured fragment with cases ignored (None when there
\* is none), whatever the order of the fragments; the rows read are its rows.
C13_FirstMatchingTableWins ==
    /\ FindTradesSheet(wb.sheetnames, sheet_names) = FirstMatchingTable
    /\ all_rows # <<>> =>
          /\ FirstMatchingTable # 0
          /\ all_rows = wb.sheets[FirstMatchingTable].rows

\* C13 witness: the first table holds only the second fragment, the second
\* table holds the first fragment, and the run has read the first table.
C13_Witness ==
    /\ pc = "done"
    /\ Len(wb.sheetnames) = 2
    /\ TablesWith(1) = {2}
    /\ TablesWith(2) = {1}
    /\ all_rows = wb.sheets[1].rows
    /\ result.trades[1].trade_num = Num(1)

\* C14: when no table name holds a configured fragment, the call ends with
\* the error of the sheet lookup: no header row is analysed, no row is read,
\* nothing is returned and the processor holds no trade.
C14_NoTableIsFatal ==
    FirstMatchingTable = 0 /\ pc # "idle" =>
        /\ pc = "raised"
        /\ result = Raised("sheet", 0)
        /\ headers = EmptyDict
        /\ all_rows = <<>>
        /\ last = "none"
        /\ trades = <<>> /\ daily_pnl = EmptyDict /\ stats = EmptyDict

\* C14 witness: a call on a workbook of two tables, neither matching, has
\* raised.
C14_Witness ==
    /\ pc = "raised"
    /\ result.stage = "sheet"
    /\ Len(wb.sheetnames) = 2
    /\ FirstMatchingTable = 0

\* s is `name` between runs of spaces
IsPadded(s, name) ==
    \E off \in 0..(Len(s) - Len(name)) :
        \A k \in 1..Len(s) :
            IF k > off /\ k <= off + Len(name) THEN s[k] = name[k - off]
            ELSE s[k] = " "

\* the configured header text of each field
FieldText(f) ==
    CASE f = "datetime" -> DateTimeHeader
      [] f = "pnl" -> PnlHeader
      [] f = "trade_num" -> TradeNumHeader
      [] f = "type" -> TypeHeader

\* the header row of the table the run reads
HeaderRow == wb.sheets[FirstMatchingTable].first_row

\* a cell of the header row holds the configured text of field f
Resolves(f) ==
    \E c \in 1..Len(HeaderRow) :
        HeaderRow[c].t = "Text" /\ IsPadded(HeaderRow[c].s, FieldText(f))

\* the required fields no cell of the header row resolves
Unresolved == {f \in {"datetime", "pnl"} : ~Resolves(f)}

\* C15: when a required field is unresolved after the scan of the header
\* row, the call ends with the error of the header analysis before any data
\* row is read, and the text of the error holds the configured header text
\* of every unresolved required field.
C15_MissingFieldsAllNamed ==
    FirstMatchingTable # 0 /\ pc # "idle" /\ Unresolved # {} =>
        /\ pc = "raised"
        /\ result.stage = "headers"
        /\ all_rows = <<>>
        /\ last = "none"
        /\ \A f \in Unresolved : Contains(result.message, FieldText(f))

\* C15 witness: both required fields are unresolved and the error names both.
C15_Witness ==
    /\ pc = "raised"
    /\ result.stage = "headers"
    /\ Unresolved = {"datetime", "pnl"}
    /\ Contains(result.message, DateTimeHeader)
    /\ Contains(result.message, PnlHeader)

\* C16: a field is mapped to a column only when the trimmed text of the
\* header cell equals the field's configured text, case and length included:
\* the mapping of a run that reads rows holds exactly the fields some cell
\* spells, each at such a cell, and a required field spelled in another case
\* or inside a longer text is unresolved.
C16_HeaderMatchIsExact ==
    FirstMatchingTable # 0 /\ pc # "idle" =>
        IF Unresolved # {}
        THEN pc = "raised" /\ result.stage = "headers"
        ELSE /\ DOMAIN headers =
                   {f \in {"datetime", "pnl", "trade_num", "type"} : Resolves(f)}
             /\ \A f \in DOMAIN headers :
                   /\ HeaderRow[headers[f]].t = "Text"
                   /\ IsPadded(HeaderRow[headers[f]].s, FieldText(f))

\* C16 witness: the date header is padded with spaces and resolves, the
\* identifier header is in lower case and resolves nothing: the trade is
\* returned without identifier.
C16_Witness ==
    /\ pc = "done"
    /\ HeaderRow[1] = Text(LowerTradeNumHeader)
    /\ HeaderRow[2] = Text(PaddedDateTimeHeader)
    /\ DOMAIN headers = {"datetime", "pnl"}
    /\ result.trades[1].trade_num = None

\* a pnl header inside a longer text leaves pnl unresolved
C16_LongerText ==
    /\ pc = "raised"
    /\ result.stage = "headers"
    /\ HeaderRow[3] = Text(LongPnlHeader)
    /\ Unresolved = {"pnl"}

\* the days at the two ends of the accepted range and the days next to them
BoundaryDays == {CurrentDate, Tomorrow, FirstDay, DayBefore}

\* cell c holds day d, as a native datetime or as YYYY-MM-DD text
Spells(c, d) ==
    \/ c = DateTime(d)
    \/ c.t = "Text" /\ c.s = Strftime(d)

\* the latest row holds day d, its other cells are valid and it has no
\* identifier that could be a duplicate
RowOfDay(d) ==
    /\ AfterRow
    /\ Complete(LastRow, headers)
    /\ Spells(DateCell(LastRow, headers), d)
    /\ PnlCell(LastRow, headers).t = "Num"
    /\ IdCell(LastRow, headers) = None

\* C17: a row dated today is accepted and a row dated tomorrow is rejected; a
\* row dated 2000-01-01 is accepted and a row dated 1999-12-31 is rejected.
C17_DateRangeBoundaries ==
    /\ RowOfDay(CurrentDate) \/ RowOfDay(FirstDay) =>
          /\ Appended(LastRow, headers)
          /\ Spells(DateCell(LastRow, headers), trades_list[Len(trades_list)].date)
    /\ RowOfDay(Tomorrow) \/ RowOfDay(DayBefore) => last = "skip"

\* C17 witness: a row dated 2000-01-01 then a row dated 1999-12-31; the first
\* alone is returned.
C17_Witness ==
    /\ pc = "done"
    /\ Len(all_rows) = 2
    /\ Spells(DateCell(all_rows[1], headers), FirstDay)
    /\ Spells(DateCell(all_rows[2], headers), DayBefore)
    /\ Len(result.trades) = 1
    /\ result.trades[1].date = FirstDay

\* a row dated today then a row dated tomorrow; the first alone is returned
C17_TodayAndTomorrow ==
    /\ pc = "done"
    /\ Len(all_rows) = 2
    /\ Spells(DateCell(all_rows[1], headers), CurrentDate)
    /\ Spells(DateCell(all_rows[2], headers), Tomorrow)
    /\ Len(result.trades) = 1
    /\ result.trades[1].date = CurrentDate

\* an empty date cell: None, the empty text, the number zero
EmptyCell(c) == c \in {None, Text(<<>>), Num(0)}

\* the date cell of the row is empty or its pnl cell is null
Absent(row, h) == EmptyCell(DateCell(row, h)) \/ PnlCell(row, h) = None

\* the identifiers of the trades of t
IdsOf(t) == {t[k].trade_num : k \in 1..Len(t)}

\* C18: a row whose date cell is empty or whose pnl cell is null is rejected,
\* whatever its other cells hold (a null pnl with a valid date included); the
\* row does not end the run and does not mark its identifier as seen.
C18_AbsentCellsReject ==
    /\ AfterRow /\ Complete(LastRow, headers) /\ Absent(LastRow, headers) =>
          /\ last = "skip"
          /\ processed_trade_numbers \subseteq IdsOf(trades_list)
    /\ pc = "raised" /\ result.stage = "rows"
           /\ Complete(all_rows[result.row], headers)
          => ~Absent(all_rows[result.row], headers)

\* C18 witness: a row with an identifier, a valid date and a null pnl, then a
\* valid row with the same identifier, which is returned.
C18_Witness ==
    /\ pc = "done"
    /\ Len(all_rows) = 2
    /\ "trade_num" \in DOMAIN headers
    /\ IdCell(all_rows[1], headers) = Num(1)
    /\ DateOk(all_rows[1], headers)
    /\ PnlCell(all_rows[1], headers) = None
    /\ IdCell(all_rows[2], headers) = Num(1)
    /\ OtherwiseValid(all_rows[2], headers)
    /\ result.trades = <<TradeOf(all_rows[2], headers)>>

\* s without its commas and dollar signs
Bare(s) == SelectSeq(s, LAMBDA c : c \notin {",", "$"})

\* s without the spaces around it
Core(s) ==
    LET inked == {k \in 1..Len(s) : s[k] # " "}
    IN  IF inked = {} THEN <<>>
        ELSE SubSeq(s, CHOOSE k \in inked : \A j \in inked : k <= j,
                       CHOOSE k \in inked : \A j \in inked : k >= j)

\* a decimal numeral: an optional sign, then digits with at most one point
Numeral(s) ==
    LET from == IF s # <<>> /\ s[1] \in {"+", "-"} THEN 2 ELSE 1
    IN  /\ \A k \in from..Len(s) : IsDigit(s[k]) \/ s[k] = "."
        /\ Cardinality({k \in from..Len(s) : s[k] = "."}) <= 1
        /\ \E k \in from..Len(s) : IsDigit(s[k])

\* a pnl cell the parsing accepts: a number, or text that is a numeral once
\* commas, dollar signs and the spaces around are taken off
AcceptablePnl(c) ==
    \/ c.t = "Num"
    \/ c.t = "Text" /\ Numeral(Core(Bare(c.s)))

\* the row has a valid date, no identifier and a pnl cell that is not null
PnlCase(row, h) ==
    /\ Complete(row, h)
    /\ DateCell(row, h) = DateTime(Jan5)
    /\ IdCell(row, h) = None
    /\ PnlCell(row, h) # None

\* the pnl of the trade appended last, in hundredths
LastPnl == trades_list[Len(trades_list)].pnl

\* C19: a row is rejected, and the run goes on, when its pnl text without
\* commas, dollar signs and surrounding spaces is empty, is "-" or is no
\* number, and when its pnl cell is neither number nor text; a numeric cell
\* and parseable text are accepted with their value ("$1,234.56" as 1234.56,
\* "-500" as -500.0).
C19_PnlParsing ==
    /\ AfterRow /\ PnlCase(LastRow, headers) =>
          LET c == PnlCell(LastRow, headers)
          IN  IF AcceptablePnl(c)
              THEN /\ Appended(LastRow, headers)
                   /\ c.t = "Num" => LastPnl = 100 * c.v
                   /\ c = Text(DollarText) => LastPnl = 123456
                   /\ c = Text(MinusText) => LastPnl = 0 - 50000
              ELSE last = "skip"
    /\ pc = "raised" /\ result.stage = "rows"
           /\ Complete(all_rows[result.row], headers)
          => ~PnlCase(all_rows[result.row], headers)

\* C19 witness: a row with pnl "-" then a row with pnl "$1,234.56"; the second
\* alone is returned, with pnl 1234.56.
C19_Witness ==
    /\ pc = "done"
    /\ Len(all_rows) = 2
    /\ PnlCase(all_rows[1], headers)
    /\ PnlCell(all_rows[1], headers) = Text(DashText)
    /\ PnlCase(all_rows[2], headers)
    /\ PnlCell(all_rows[2], headers) = Text(DollarText)
    /\ Len(result.trades) = 1
    /\ result.trades[1].pnl = 123456

\* every day of the mapping d sums to zero
AllDaysZero(d) == \A k \in DOMAIN d : d[k] = 0

\* no row of the sheet was retained: the sheet has no data row, or each of
\* its rows was rejected
NothingRetained == trades = <<>>

\* C20: calculate_stats never divides by zero: a run that retains no trade
\* (no data rows, or every row rejected) succeeds with total_pnl, win_rate,
\* avg_daily and total_trades all 0, and a run that retains trades whose days
\* all sum to zero succeeds with avg_daily 0.
C20_NoDivisionByZero ==
    /\ ~(pc = "raised" /\ result.stage = "stats")
    /\ pc = "done" /\ NothingRetained =>
          /\ result.stats.total_pnl = 0
          /\ result.stats.win_rate = Zero
          /\ result.stats.avg_daily = Zero
          /\ result.stats.total_trades = 0
    /\ pc = "done" /\ ~NothingRetained /\ AllDaysZero(daily_pnl) =>
          /\ result.stats.avg_daily = Zero
          /\ result.stats.total_trades = Len(trades)

\* C20 witness: +100 and -100 on the same day; both trades are returned and
\* the one day sums to zero.
C20_Witness ==
    /\ pc = "done"
    /\ Len(result.trades) = 2
    /\ DOMAIN result.daily_pnl # {}
    /\ AllDaysZero(result.daily_pnl)
    /\ result.stats.avg_daily = Zero

\* C20, second witness: two rows, both rejected, and all-zero stats.
C20_AllRejected ==
    /\ pc = "done"
    /\ Len(all_rows) = 2
    /\ result.trades = <<>>
    /\ result.stats.total_trades = 0
    /\ result.stats.avg_daily = Zero

\* ------------------------------------------------------------------ sheets of wins, losses and zeros

\* the longest sheet of the runs whose statistics are examined, in data rows
MaxStatRows == 3

OneText == <<"1">>

TwoText == <<"2">>

Jan5Key == <<"2", "0", "2", "4", "-", "0", "1", "-", "0", "5">>

Jan6Key == <<"2", "0", "2", "4", "-", "0", "1", "-", "0", "6">>

\* two trades with an identifier on one day, a trade without one on the next,
\* trades of pnl 0 and -50, a row with 0 as date and a row of one cell
StatRows ==
    { <<Text(OneText), DateTime(Jan5), Num(100)>>,
      <<Text(TwoText), DateTime(Jan5), Num(-30)>>,
      <<None, DateTime(Jan6), Num(50)>>,
      <<None, DateTime(Jan6), Num(-50)>>,
      <<None, DateTime(Jan5), Num(0)>>,
      <<None, Num(0), Num(100)>>,
      <<Text(OneText)>> }

StatWorkbooks ==
    {[sheetnames |-> <<TradesName>>, sheets |-> <<Sheet(FullHeader, rs)>>] :
        rs \in UNION {[1..n -> StatRows] : n \in 0..MaxStatRows}}

InitStats ==
    wb \in StatWorkbooks /\ DefaultConfig /\ Unobserved /\ Fresh /\ Started

SpecStats == InitStats /\ [][NextOnce]_vars

\* the rows (2024-01-05, 100, "1"), (2024-01-05, -30, "2"), (2024-01-06, 50, None)
ThreeRows ==
    << <<Text(OneText), DateTime(Jan5), Num(100)>>,
       <<Text(TwoText), DateTime(Jan5), Num(-30)>>,
       <<None, DateTime(Jan6), Num(50)>> >>

\* C21: total_trades is the length of the returned trades list and total_pnl
\* the sum of pnl over it; the rows (2024-01-05, 100, "1"),
\* (2024-01-05, -30, "2"), (2024-01-06, 50, None) give 3 trades, daily_pnl
\* {2024-01-05: 70, 2024-01-06: 50} and total_pnl 120.
C21_TotalsOfReturnedTrades ==
    pc = "done" =>
        /\ result.stats.total_trades = Len(result.trades)
        /\ result.stats.total_pnl = SumPnl(result.trades, 1..Len(result.trades))
        /\ all_rows = ThreeRows =>
              /\ Len(result.trades) = 3
              /\ DOMAIN result.daily_pnl = {Jan5Key, Jan6Key}
              /\ result.daily_pnl[Jan5Key] = 7000
              /\ result.daily_pnl[Jan6Key] = 5000
              /\ result.stats.total_pnl = 12000

\* C21 witness: the run on the three rows has returned, with total_pnl 120.
C21_Witness ==
    /\ pc = "done"
    /\ all_rows = ThreeRows
    /\ result.stats.total_trades = 3
    /\ result.stats.total_pnl = 12000

\* the trades of t that are no loss and no break-even
Wins(t) == {k \in 1..Len(t) : ~(t[k].pnl <= 0)}

\* the fraction q is the quotient n / d
IsQuotient(q, n, d) == q.den > 0 /\ q.num * d = n * q.den

\* C22: win_rate is 100 times the number of returned trades with pnl > 0
\* divided by total_trades; it lies in 0..100, a trade with pnl exactly 0 is
\* no win, and it is 0 when there are no trades.
C22_WinRate ==
    pc = "done" =>
        LET t == result.trades
            r == result.stats.win_rate
        IN  /\ t = <<>> => r = Zero
            /\ t # <<>> => IsQuotient(r, 100 * Cardinality(Wins(t)), Len(t))
            /\ 0 <= r.num /\ r.num <= 100 * r.den
            /\ (\A k \in 1..Len(t) : t[k].pnl = 0) => r = Zero

\* C22 witness: a trade of pnl 0 and a trade of pnl 100 give a win rate of 50.
C22_Witness ==
    /\ pc = "done"
    /\ Len(result.trades) = 2
    /\ \E k \in 1..2 : result.trades[k].pnl = 0
    /\ \E k \in 1..2 : result.trades[k].pnl = 10000
    /\ result.stats.win_rate = Ratio(50, 1)

\* the days of the mapping d that do not sum to zero
TradingDays(d) == {key \in DOMAIN d : d[key] # 0}

\* C23: avg_daily is total_pnl divided by the number of daily_pnl keys with a
\* non-zero value; a day whose trades net to zero is no trading day, and
\* avg_daily is 0 when there is no trading day.
C23_AvgDaily ==
    pc = "done" =>
        LET days == TradingDays(result.daily_pnl)
            total == SumPnl(result.trades, 1..Len(result.trades))
        IN  IF days = {} THEN result.stats.avg_daily = Zero
            ELSE IsQuotient(result.stats.avg_daily, total, Cardinality(days))

\* C23 witness: 100 on one day, 50 and -50 on the next; the second day nets
\* to zero and avg_daily is 100 / 1.
C23_Witness ==
    /\ pc = "done"
    /\ DOMAIN result.daily_pnl = {Jan5Key, Jan6Key}
    /\ result.daily_pnl[Jan6Key] = 0
    /\ result.daily_pnl[Jan5Key] = 10000
    /\ result.stats.avg_daily = Ratio(10000, 1)

\* a row with a valid date, no identifier and the number 0 as pnl
ZeroRow(row) == row = <<None, DateTime(Jan5), Num(0)>>

\* a row with the number 0 as date
ZeroDateRow(row) == row = <<None, Num(0), Num(100)>>

\* the days of the trades t on which every trade has pnl 0
ZeroOnlyDays(t) ==
    {key \in {Strftime(t[k].date) : k \in 1..Len(t)} :
        \A k \in 1..Len(t) : Strftime(t[k].date) = key => t[k].pnl = 0}

\* C29: a row whose pnl cell is the number 0, with a valid date, is accepted,
\* unlike a row whose date cell is 0: its trade is counted in total_trades, is
\* no win, creates the key of its date in daily_pnl, and a day with none but
\* such trades is no trading day of avg_daily.
C29_ZeroPnlAccepted ==
    /\ AfterRow /\ ZeroRow(LastRow) =>
          /\ last = "accept"
          /\ trades_list[Len(trades_list)] = MakeTrade(Jan5, 0, None)
          /\ Jan5Key \in DOMAIN daily_pnl_dict
    /\ AfterRow /\ ZeroDateRow(LastRow) => last = "skip"
    /\ pc = "done" =>
          LET t == result.trades
              zeros == {k \in 1..Len(all_rows) : ZeroRow(all_rows[k])}
              gains == {k \in 1..Len(t) : t[k].pnl > 0}
              others == DOMAIN result.daily_pnl \ ZeroOnlyDays(t)
              counted == {key \in others : result.daily_pnl[key] # 0}
          IN  /\ Cardinality({k \in 1..Len(t) : t[k].pnl = 0}) = Cardinality(zeros)
              /\ result.stats.total_trades = Len(t)
              /\ zeros # {} =>
                    /\ Jan5Key \in DOMAIN result.daily_pnl
                    /\ IsQuotient(result.stats.win_rate,
                                  100 * Cardinality(gains), Len(t))
                    /\ IF counted = {} THEN result.stats.avg_daily = Zero
                       ELSE IsQuotient(result.stats.avg_daily,
                                       SumPnl(t, 1..Len(t)), Cardinality(counted))

\* C29 witness: a trade of pnl 0 on one day and one of 50 on the next: two
\* trades, two keys, a win rate of 50 and an avg_daily of 50 / 1.
C29_Witness ==
    /\ pc = "done"
    /\ Len(all_rows) = 2
    /\ ZeroRow(all_rows[1])
    /\ result.stats.total_trades = 2
    /\ DOMAIN result.daily_pnl = {Jan5Key, Jan6Key}
    /\ result.daily_pnl[Jan5Key] = 0
    /\ result.stats.win_rate = Ratio(50, 1)
    /\ result.stats.avg_daily = Ratio(5000, 1)

\* ------------------------------------------------------------------ header rows with repeated texts

\* the widest header row of the runs on repeated header texts, in cells
MaxHeadCols == 3

\* header cells: the two required texts, one of them padded as well, and an
\* empty cell
HeadCells ==
    {Text(DateTimeHeader), Text(PaddedDateTimeHeader), Text(PnlHeader), None}

HeadRows == [1..MaxHeadCols -> HeadCells]

\* the date and the amount that tell column c from the other columns
DateAt(c) == DateTime(Date(2024, 1, c))

AmountAt(c) == Num(c)

\* data rows with a date or an amount in each column
ColumnRows == [1..MaxHeadCols -> {"date", "amount"}]

CellsOf(r) == [c \in 1..MaxHeadCols |-> IF r[c] = "date" THEN DateAt(c) ELSE AmountAt(c)]

HeadWorkbooks ==
    {[sheetnames |-> <<TradesName>>, sheets |-> <<Sheet(hd, rs)>>] :
        hd \in HeadRows,
        rs \in {<<>>, << <<DateAt(1)>> >>} \cup {<<CellsOf(r)>> : r \in ColumnRows}}

InitHeads ==
    wb \in HeadWorkbooks /\ DefaultConfig /\ Unobserved /\ Fresh /\ Started

SpecHeads == InitHeads /\ [][NextOnce]_vars

\* the columns of the header row whose text, trimmed, is the text of field f
ColumnsOf(f) ==
    {c \in 1..Len(wb.sheets[1].first_row) :
        LET cell == wb.sheets[1].first_row[c]
        IN  cell.t = "Text" /\ IsPadded(cell.s, FieldText(f))}

\* the right-most column of a non-empty set of columns
LastOf(cols) == CHOOSE c \in cols : \A c2 \in cols : c2 <= c

\* C28: when several header cells match the expected text of one field, the
\* field resolves to the last (right-most) of these columns, and no header
\* cell resolves two fields; the cells of a data row are read from there.
C28_LastMatchingColumnWins ==
    pc \in {"rows", "stats", "done"} =>
        /\ \A f \in DOMAIN headers :
              /\ ColumnsOf(f) # {}
              /\ headers[f] = LastOf(ColumnsOf(f))
        /\ \A f, g \in DOMAIN headers : headers[f] = headers[g] => f = g
        /\ pc = "done" /\ result.trades # <<>> =>
              /\ DateTime(result.trades[1].date) = DateAt(LastOf(ColumnsOf("datetime")))
              /\ result.trades[1].pnl = 100 * LastOf(ColumnsOf("pnl"))

\* C28 witness: Date/Time in columns 1 and 2 and P&L USD in column 3; the
\* trade has the date of column 2.
C28_Witness ==
    /\ pc = "done"
    /\ ColumnsOf("datetime") = {1, 2}
    /\ headers["datetime"] = 2
    /\ Len(result.trades) = 1
    /\ result.trades[1].date = Date(2024, 1, 2)

\* ------------------------------------------------------------------ runs with and without a progress callback

\* the k-th row of a long sheet: the first row and every fifth row after it
\* are trades of the 5th and the 6th with amounts of both signs, the other
\* rows have no date
LongRow(k) ==
    IF k % 5 = 1
    THEN <<None, DateTime(IF k % 2 = 0 THEN Jan5 ELSE Jan6), Num(k - 50)>>
    ELSE <<None, None, Num(k)>>

LongSheet(n) == [k \in 1..n |-> LongRow(k)]

\* the numbers of data rows on either side of each branch of lines 251-269
SheetLengths == {0, 1, QuietSheet, QuietSheet + 1, LargeSheet}

\* a sheet whose second row has one cell only
BrokenSheet == <<LongRow(1), <<None>> >>

ProgressWorkbooks ==
    {[sheetnames |-> <<TradesName>>, sheets |-> <<Sheet(FullHeader, rs)>>] :
        rs \in {LongSheet(n) : n \in SheetLengths} \cup {BrokenSheet}}

\* files below and of 1 MiB, read with and without a callback
InitProgress ==
    /\ wb \in ProgressWorkbooks
    /\ file_size \in {Megabyte - 1, Megabyte}
    /\ progress_callback \in {"None", "log_loading"}
    /\ DefaultConfig
    /\ Fresh
    /\ Started

SpecProgress == InitProgress /\ [][NextOnce]_vars

\* the messages of the loop among the messages m
TickMessages(m) == SelectSeq(m, LAMBDA x : x.text = "Processing trades...")

\* the sum of pnl over the trades a..b of t, by halves
RECURSIVE SumRange(_, _, _)
SumRange(t, a, b) ==
    IF a > b THEN 0
    ELSE IF a = b THEN t[a].pnl
    ELSE LET mid == (a + b) \div 2
         IN  SumRange(t, a, mid) + SumRange(t, mid + 1, b)

\* the trades of the rows of a long sheet that have a date
TradesOfLong(rows) ==
    LET dated == SelectSeq(rows, LAMBDA row : Len(row) = 3 /\ row[2] # None)
    IN  [k \in 1..Len(dated) |-> MakeTrade(dated[k][2].d, 100 * dated[k][3].v, None)]

\* the trades of t of the day d
OfDay(t, d) == SelectSeq(t, LAMBDA x : x.date = d)

\* r is the result of a run that retains the trades t of the 5th and the 6th
IsResultOf(r, t) ==
    LET total == SumRange(t, 1, Len(t))
        on5 == OfDay(t, Jan5)
        on6 == OfDay(t, Jan6)
        days == {Jan5Key : x \in {1} \cap DOMAIN on5} \cup {Jan6Key : x \in {1} \cap DOMAIN on6}
        traded == {key \in days : r.daily_pnl[key] # 0}
    IN  /\ r.status = "ok"
        /\ r.trades = t
        /\ DOMAIN r.daily_pnl = days
        /\ Jan5Key \in days => r.daily_pnl[Jan5Key] = SumRange(on5, 1, Len(on5))
        /\ Jan6Key \in days => r.daily_pnl[Jan6Key] = SumRange(on6, 1, Len(on6))
        /\ r.stats.total_trades = Len(t)
        /\ r.stats.total_pnl = total
        /\ IF t = <<>> THEN r.stats.win_rate = Zero
           ELSE IsQuotient(r.stats.win_rate,
                           100 * Len(SelectSeq(t, LAMBDA x : x.pnl > 0)), Len(t))
        /\ IF traded = {} THEN r.stats.avg_daily = Zero
           ELSE IsQuotient(r.stats.avg_daily, total, Cardinality(traded))

\* C24: progress reporting has no effect on the result: what process_file
\* returns, or that it raises, is told by the sheet alone, whether or not a
\* callback is given, for small and large files and for every number of rows.
C24_ProgressHasNoEffect ==
    /\ pc = "done" => IsResultOf(result, TradesOfLong(wb.sheets[1].rows))
    /\ pc = "raised" => wb.sheets[1].rows = BrokenSheet /\ result = Raised("rows", 2)
    /\ wb.sheets[1].rows = BrokenSheet => pc # "done"

\* C24 witness: a run on a sheet of 101 rows of a file of 1 MiB has returned
\* its 21 trades after 11 reports from inside the loop.
C24_Witness ==
    /\ pc = "done"
    /\ Len(all_rows) = QuietSheet + 1
    /\ Len(TickMessages(log)) = 11
    /\ Len(result.trades) = 21

\* C24, second witness: the same sheet in a file below 1 MiB, read with a
\* callback that gets no message.
C24_Unreported ==
    /\ pc = "done"
    /\ Len(all_rows) = QuietSheet + 1
    /\ progress_callback # "None"
    /\ log = <<>>
    /\ Len(result.trades) = 21

\* ------------------------------------------------------------------ the two variants of the row processing

\* the longest sheet of the runs that compare the two variants, in data rows
MaxTwinRows == 2

\* rows of every kind: identifiers seen before, short rows, and each kind of
\* date cell and of pnl cell
TwinRows == SampleRows \cup DateRows \cup PnlRows

TwinWorkbooks ==
    {[sheetnames |-> <<TradesName>>, sheets |-> <<Sheet(hd, rs)>>] :
        hd \in {FullHeader, NoIdHeader},
        rs \in UNION {[1..n -> TwinRows] : n \in 0..MaxTwinRows}}

InitTwin ==
    wb \in TwinWorkbooks /\ DefaultConfig /\ Unobserved /\ Fresh /\ Started

SpecTwin == InitTwin /\ [][NextOnce]_vars

\* C25: the inline body of the loop of _process_trades and
\* _process_single_trade behave the same: on each row the loop comes to, with
\* the header mapping and the identifiers seen so far, both accept or both
\* reject (or both raise), build the same trade and leave the same set of
\* seen identifiers.
C25_VariantsAgree ==
    InLoop =>
        ProcessSingleTrade(all_rows[i], headers, processed_trade_numbers)
            = ProcessRow(all_rows[i], headers, processed_trade_numbers)

\* C25 witness: the loop is at a row whose identifier was seen on the row
\* before, and _process_single_trade returns None for it as well.
C25_Witness ==
    /\ InLoop
    /\ i = 2
    /\ Complete(all_rows[2], headers)
    /\ IdCell(all_rows[2], headers) = Num(1)
    /\ processed_trade_numbers = {Num(1)}
    /\ Present(all_rows[2], headers)
    /\ DateOk(all_rows[2], headers) /\ PnlOk(all_rows[2], headers)
    /\ ProcessSingleTrade(all_rows[2], headers, processed_trade_numbers)
          = Skip({Num(1)})

\* C25, second witness: the loop is at a row with a date of spaces only, on
\* which _process_single_trade raises as well.
C25_BothRaise ==
    /\ InLoop
    /\ Complete(all_rows[i], headers)
    /\ DateCell(all_rows[i], headers) = Text(BlankText)
    /\ ProcessSingleTrade(all_rows[i], headers, processed_trade_numbers).kind = "raise"

\* ------------------------------------------------------------------ the month of the calendar

\* the years on either side of the first one over which the calendar is moved
MaxYears == 4

\* lines 1631-1635, mutated: the year stays at the step from January
MonthBefore_SameYear(m, y) ==
    IF m = 1 THEN [current_month |-> 12, current_year |-> y]
    ELSE [current_month |-> m - 1, current_year |-> y]

\* lines 1631-1635
MonthBefore(m, y) ==
    IF m = 1 THEN [current_month |-> 12, current_year |-> y - 1]
    ELSE [current_month |-> m - 1, current_year |-> y]

\* lines 1639-1643
MonthAfter(m, y) ==
    IF m = 12 THEN [current_month |-> 1, current_year |-> y + 1]
    ELSE [current_month |-> m + 1, current_year |-> y]

\* the move and the month shown before it, kept for the last two moves
Moved(op) ==
    LET now == [op |-> op, month |-> current_month, year |-> current_year]
    IN  IF moves = <<>> THEN <<now>> ELSE <<moves[Len(moves)], now>>

\* the processor and the loading of files are left alone
NoLoading ==
    UNCHANGED <<wb, given, trades, daily_pnl, stats, pc, locals, result, prev,
                reused, held, alias, log, shown, loading_dialog, threads>>

\* lines 1630-1636: prev_month
PrevMonth ==
    /\ current_year > CurrentDate.year - MaxYears
    /\ LET to == MonthBefore(current_month, current_year)
       IN  /\ current_month' = to.current_month
           /\ current_year' = to.current_year
    /\ moves' = Moved("prev_month")
    /\ NoLoading

\* lines 1638-1644: next_month
NextMonth ==
    /\ current_year < CurrentDate.year + MaxYears
    /\ LET to == MonthAfter(current_month, current_year)
       IN  /\ current_month' = to.current_month
           /\ current_year' = to.current_year
    /\ moves' = Moved("next_month")
    /\ NoLoading

\* no file has been chosen
NoWorkbook == [sheetnames |-> <<>>, sheets |-> <<>>]

\* lines 485-486: the application is started in any month of the year
InitMonths ==
    /\ wb = NoWorkbook
    /\ DefaultConfig /\ Unobserved /\ Fresh /\ NothingLoaded
    /\ current_month \in 1..12
    /\ current_year = CurrentDate.year
    /\ moves = <<>>

NextMonths == PrevMonth \/ NextMonth

SpecMonths == InitMonths /\ [][NextMonths]_vars

\* the number of the month m of the year y, counted from the year 0
MonthNumber(m, y) == 12 * y + (m - 1)

\* C30: after any sequence of prev_month and next_month, current_month is in
\* 1..12, each move has changed the month shown by exactly one month (between
\* December and January with a change of the year by exactly one), and
\* next_month followed by prev_month restores the month and the year.
C30_MonthNavigation ==
    /\ current_month \in 1..12
    /\ moves # <<>> =>
          LET latest == moves[Len(moves)]
              step == IF latest.op = "next_month" THEN 1 ELSE 0 - 1
          IN  /\ MonthNumber(current_month, current_year)
                    = MonthNumber(latest.month, latest.year) + step
              /\ latest.month = 12 /\ latest.op = "next_month" =>
                    current_month = 1 /\ current_year = latest.year + 1
              /\ latest.month = 1 /\ latest.op = "prev_month" =>
                    current_month = 12 /\ current_year = latest.year - 1
              /\ ~(latest.month = 12 /\ latest.op = "next_month")
                    /\ ~(latest.month = 1 /\ latest.op = "prev_month") =>
                    current_year = latest.year
    /\ Len(moves) = 2 /\ moves[1].op = "next_month" /\ moves[2].op = "prev_month" =>
          current_month = moves[1].month /\ current_year = moves[1].year

\* C30 witness: next_month from a December, then prev_month, and the calendar
\* shows the December again.
C30_Witness ==
    /\ Len(moves) = 2
    /\ moves[1] = [op |-> "next_month", month |-> 12, year |-> CurrentDate.year]
    /\ moves[2] = [op |-> "prev_month", month |-> 1, year |-> CurrentDate.year + 1]
    /\ current_month = 12
    /\ current_year = CurrentDate.year

\* ------------------------------------------------------------------ loading files in the application

\* the number of files loaded in one session of the application
MaxThreads == 3

\* the files of a session: two with trades and one without a matching table
LoadWorkbooks ==
    {[sheetnames |-> <<TradesName>>,
      sheets |-> <<Sheet(FullHeader, << <<Num(1), DateTime(Jan5), Num(100)>> >>)>>],
     [sheetnames |-> <<TradesName>>,
      sheets |-> <<Sheet(FullHeader, << <<Num(2), DateTime(Jan6), Num(-50)>>,
                                       <<Num(3), DateTime(Jan6), Num(20)>> >>)>>],
     [sheetnames |-> <<SummaryName>>, sheets |-> <<Sheet(FullHeader, <<>>)>>]}

\* process_file on `book` raises before _process_trades
FailsEarly(book) ==
    LET sheet == FindTradesSheet(book.sheetnames, sheet_names)
    IN  \/ sheet = 0
        \/ MissingColumns(HeadersOf(book.sheets[sheet].first_row)) # <<>>

\* the trades list and the day buckets a run on `book` builds in its own
\* locals (lines 257-338)
BuiltFrom(book) ==
    LET sheet == book.sheets[FindTradesSheet(book.sheetnames, sheet_names)]
        t == TradesFrom(sheet.rows, HeadersOf(sheet.first_row), 1)
    IN  [trades |-> t, daily_pnl |-> DailyOf(t)]

\* the threads that are inside trade_processor.process_file
Running == {k \in 1..Len(threads) : threads[k].at = "process_file"}

\* lines 1371-1447: load_file with a chosen file: the loading dialog is shown
\* and takes the grab, and a thread is started on process_file_with_logging.
\* The button of the main window is out of reach while a dialog has the grab.
LoadFile ==
    /\ loading_dialog # "shown"
    /\ Len(threads) < MaxThreads
    /\ \E book \in LoadWorkbooks :
          /\ wb' = book
          /\ threads' =
                Append([k \in 1..Len(threads) |->
                           IF k \in Running
                           THEN [threads[k] EXCEPT !.raced = @ \cup {book}]
                           ELSE threads[k]],
                       [file |-> book, at |-> "process_file",
                        raced |-> {threads[k].file : k \in Running}])
    /\ loading_dialog' = "shown"
    /\ UNCHANGED <<given, trades, daily_pnl, stats, pc, locals, result, prev,
                   reused, held, alias, log, shown, month>>

\* lines 1397-1399, 1518-1520: Escape, Return or the close button of the
\* loading dialog, at any moment: the dialog is destroyed and the grab is gone
CloseLoadingDialog ==
    /\ loading_dialog = "shown"
    /\ loading_dialog' = "destroyed"
    /\ UNCHANGED <<wb, given, trades, daily_pnl, stats, pc, locals, result, prev,
                   reused, held, alias, log, shown, threads, month>>

\* lines 1449-1479, 161-200: the thread k comes to the end of
\* process_file_with_logging.  A run that raises before _process_trades
\* leaves the data alone.  Otherwise self.trades and self.daily_pnl of the
\* processor are read at lines 410-433 and again at lines 193-197, and each
\* read gives what this run assigned or what a run of another thread that
\* was inside process_file at the same time assigned (its lists, or the empty
\* ones of lines 240-241).
WorkerEnds ==
    \E k \in Running :
        LET book == threads[k].file
            others == {b \in threads[k].raced : ~FailsEarly(b)}
            assigned == {BuiltFrom(book)} \cup {BuiltFrom(b) : b \in others}
                           \cup (IF others = {} THEN {}
                                 ELSE {[trades |-> <<>>, daily_pnl |-> EmptyDict]})
        IN  /\ threads' = [threads EXCEPT ![k].at = "ended"]
            /\ IF FailsEarly(book)
               THEN UNCHANGED <<trades, daily_pnl, stats, shown>>
               ELSE \E counted, returned \in assigned, day \in assigned :
                       /\ stats' = CalculateStats(counted.trades, day.daily_pnl)
                       /\ ZeroDivisionError \notin {stats'.win_rate, stats'.avg_daily}
                       /\ trades' = returned.trades
                       /\ daily_pnl' = day.daily_pnl
                       /\ app_trades' = returned.trades
                       /\ app_daily_pnl' = day.daily_pnl
                       /\ app_stats' = stats'
    /\ UNCHANGED <<wb, given, pc, locals, result, prev, reused, held, alias, log,
                   loading_dialog, month>>

InitLoads ==
    /\ wb = NoWorkbook
    /\ DefaultConfig /\ Unobserved /\ Fresh /\ Started

NextLoads == LoadFile \/ CloseLoadingDialog \/ WorkerEnds

SpecLoads == InitLoads /\ [][NextLoads]_vars

\* C26: in every interleaving of load_file, the closing of the loading dialog
\* and the end of a worker, at most one thread is inside process_file of the
\* one TradeProcessor of the application.
C26_OneWorkerAtATime == Cardinality(Running) <= 1

\* a second file is loaded after the dialog of the first was closed while its
\* worker was running: two threads are inside process_file
C26_TwoWorkers ==
    /\ Len(threads) = 2
    /\ Running = {1, 2}
    /\ loading_dialog = "shown"

\* ------------------------------------------------------------------ files loaded one after the other

\* the files of a session in which each file is loaded after the worker of
\* the file before has ended
SessionWorkbooks ==
    RunWorkbooks
    \cup {[sheetnames |-> <<TradesName>>,
           sheets |-> <<Sheet(NoPnlHeader, << <<Num(1), DateTime(Jan5), Num(100)>> >>)>>]}

InitSession ==
    wb \in SessionWorkbooks /\ DefaultConfig /\ Unobserved /\ Fresh /\ Started

\* lines 1454-1461: process_file returns to process_file_with_logging, which
\* assigns the result to the application; after an exception it assigns
\* nothing
WorkerGetsResult ==
    /\ ReturnStep
    /\ IF pc' = "done"
       THEN /\ app_trades' = result'.trades
            /\ app_daily_pnl' = result'.daily_pnl
            /\ app_stats' = result'.stats
       ELSE UNCHANGED shown
    /\ UNCHANGED <<loading_dialog, threads, month>>

\* the file loaded is the file of the session's first load, or another one
LoadAgain == ProcessFileStart

LoadOther ==
    \E book \in SessionWorkbooks :
        /\ book # wb
        /\ wb' = book
        /\ ProcessFile(book)

NextSession ==
    \/ LoadAgain
    \/ LoadOther
    \/ RowAccept
    \/ RowSkip
    \/ RowRaise
    \/ AssignResults
    \/ WorkerGetsResult

SpecSession == InitSession /\ [][NextSession]_vars

\* t, d and s are the trades, the day buckets and the statistics of one run,
\* or those of a processor that has not run
OfOneRun(t, d, s) ==
    \/ t = <<>> /\ d = EmptyDict /\ s = EmptyDict
    \/ d = DailyOf(t) /\ s = CalculateStats(t, d)

\* C27: when a run has ended with a fatal error, the data of the last run
\* that returned is unchanged: trades, daily_pnl and stats of the
\* TradeProcessor and of the application are what that run gave them, and
\* each three are of one and the same run.
C27_FatalErrorKeepsData ==
    pc = "raised" =>
        /\ <<trades, daily_pnl, stats>> = <<app_trades, app_daily_pnl, app_stats>>
        /\ OfOneRun(trades, daily_pnl, stats)
        /\ OfOneRun(app_trades, app_daily_pnl, app_stats)

\* a run that ends with "no matching sheet" or "missing required columns"
\* changes neither the data of the processor nor that of the application
C27_EarlyErrorsKeepData ==
    [][pc' = "raised" /\ result'.stage \in {"sheet", "headers"}
          => UNCHANGED <<trades, daily_pnl, stats, shown>>]_vars

\* a file was loaded, then one with a row of one cell: the application shows
\* the trades of the first, the processor has no trade and the statistics of
\* the first
C27_MixedAfterRowError ==
    /\ pc = "raised"
    /\ result.stage = "rows"
    /\ app_trades # <<>>
    /\ trades = <<>>
    /\ daily_pnl = EmptyDict
    /\ stats = app_stats
    /\ stats.total_trades > 0

\* a file was loaded, then one without a matching table: nothing has changed
C27_KeptAfterSheetError ==
    /\ pc = "raised"
    /\ result.stage = "sheet"
    /\ app_trades # <<>>
    /\ <<trades, daily_pnl, stats>> = <<app_trades, app_daily_pnl, app_stats>>

====
